---------------------------- MODULE Spec2Model ----------------------------
(***************************************************************************)
(* Model of the definition-file front end of the logic simulator:         *)
(* src/parse.py (class Parser) reading symbols from src/scanner.py.       *)
(*                                                                         *)
(* The parser is modelled over the sequence of symbols the scanner         *)
(* produces for a file (variable input); the builders Devices, Network     *)
(* and Monitors are external and answer each call with any of their       *)
(* error codes.                                                            *)
(***************************************************************************)
EXTENDS Integers, Sequences, FiniteSets, TLC

VARIABLES
    input,          \* the symbols of the definition file, in order (before EOF)
    pos,            \* Scanner: number of calls of get_symbol so far
    symbol,         \* Parser.symbol
    error_count,    \* Parser.error_count
    semerr_count,   \* Parser.semerr_count
    error_output,   \* Parser.error_output
    error_cursor,   \* Parser.error_cursor
    errline_num,    \* Parser.errline_num
    errline_pos,    \* Parser.errline_pos
    error_to_gui,   \* Parser.error_to_gui
    calls,          \* the builders' calls, each with its answer, in order
    flags,          \* the values parse_devices/connections/monitors returned
    flag,           \* local variable flag of the running parse_* method
    section_errors, \* len(error_output) when that method was called
    pc,             \* position of parse_network (or of skip_erratic_part)
    result,         \* the value parse_network returned
    file,           \* Scanner.file: the characters of the definition file
    file_pos,       \* Scanner.file.tell(): number of characters read
    current_character,            \* Scanner.current_character
    line_number,                  \* Scanner.line_number
    cursor_pos_at_start_of_line,  \* Scanner.cursor_pos_at_start_of_line
    names,          \* Names: the strings interned so far, by id
    warnings,       \* number of unclosed-comment warnings printed
    returned,       \* the symbols get_symbol has returned, in order
    path,           \* Gui.path: the file loaded, if any
    undo_stack,     \* CommandManager.undo_stack: the commands, by number
    redo_stack,     \* CommandManager.redo_stack
    commands,       \* the Command objects executed with NO_ERROR, by number
    completed_cycles,     \* Gui.completed_cycles
    monitors_dictionary,  \* Monitors.monitors_dictionary: which object
    devices_list,         \* Devices.devices_list: which object
    dictionaries,   \* the dictionary objects: the signals recorded in each
    device_lists,   \* the device list objects: the device states in each
    first,          \* per command: what was seen before and after execute
    last            \* the last call of the manager and what it returned

\* the variables of the character-level scanner
scanner_vars == <<file, file_pos, current_character, line_number,
                  cursor_pos_at_start_of_line, names, warnings, returned>>

\* the variables of the parser
parser_vars == <<input, pos, symbol, error_count, semerr_count,
                 error_output, error_cursor, errline_num, errline_pos,
                 error_to_gui, calls, flags, flag, section_errors, pc,
                 result>>

\* the variables of the command layer
command_vars == <<path, undo_stack, redo_stack, commands, completed_cycles,
                  monitors_dictionary, devices_list, dictionaries,
                  device_lists, first, last>>

vars == <<input, pos, symbol, error_count, semerr_count, error_output,
          error_cursor, errline_num, errline_pos, error_to_gui, calls,
          flags, flag, section_errors, pc, result, file, file_pos,
          current_character, line_number, cursor_pos_at_start_of_line,
          names, warnings, returned, path, undo_stack, redo_stack,
          commands, completed_cycles, monitors_dictionary, devices_list,
          dictionaries, device_lists, first, last>>

-----------------------------------------------------------------------------
(* Bounds of the model *)

\* longest run of arbitrary symbols inserted at one place of a seed file
MaxNoise == 1
\* largest number of consecutive seed symbols removed at that place
MaxDrop == 1
\* longest file skip_erratic_part is run on by itself
MaxSkipLen == 2
\* largest number of pieces a file of characters is put together from
MaxChunks == 3
\* number of times get_symbol is called on after it first returned EOF
MaxEofReads == 2
\* largest number of diagnostics located while the scanner is followed
MaxDiagnostics == 2
MaxShows == 2
\* largest number of commands kept between two undos of them all
MaxCommands == 2
\* largest number of cycles one command is asked to simulate
MaxCycles == 2
\* largest number of calls of the manager
MaxCalls == 7

-----------------------------------------------------------------------------
(* Symbol types: Scanner.symbol_type_list, and None for an invalid symbol *)

DOT == "DOT"
FORWARDS_SLASH == "FORWARDS_SLASH"
COMMA == "COMMA"
SEMICOLON == "SEMICOLON"
EQUALS == "EQUALS"
KEYWORD == "KEYWORD"
NUMBER == "NUMBER"
NAME == "NAME"
EOF == "EOF"
\* Symbol.type of a symbol the scanner could not classify
NoneType == "None"

\* Python's None for an optional value; a present value v is <<v>>
None == <<>>

\* The name table: names.lookup interns a string, get_name_string reads it back
NameTable == <<"DEVICES", "CONNECTIONS", "MONITORS",
               "SW1", "SWITCH", "CK1", "CLOCK", "I1", "SW2">>

lookup(name_string) ==
    <<(CHOOSE i \in 1..Len(NameTable) : NameTable[i] = name_string) - 1>>

get_name_string(name_id) == NameTable[name_id[1] + 1]

DEVICES_ID == lookup("DEVICES")
CONNECTIONS_ID == lookup("CONNECTIONS")
MONITORS_ID == lookup("MONITORS")

\* int(text) of a digit string, given as its sequence of digits
RECURSIVE int(_)
int(digits) ==
    IF digits = <<>> THEN 0
    ELSE int(SubSeq(digits, 1, Len(digits) - 1)) * 10 + digits[Len(digits)]

-----------------------------------------------------------------------------
(* Error codes *)

\* Parser.error_type_list
NO_KEYWORD_DEVICES == "NO_KEYWORD_DEVICES"
NO_KEYWORD_CONNECTIONS == "NO_KEYWORD_CONNECTIONS"
NO_KEYWORD_MONITORS == "NO_KEYWORD_MONITORS"
NO_EQUALS == "NO_EQUALS"
NO_SEMICOLON == "NO_SEMICOLON"
NO_COMMA == "NO_COMMA"
NOT_NAME == "NOT_NAME"
NOT_NUMBER == "NOT_NUMBER"
NOT_SYMBOL == "NOT_SYMBOL"

NO_ERROR == "NO_ERROR"

\* what Devices.make_device can return
DeviceErrors == {NO_ERROR, "INVALID_QUALIFIER", "NO_QUALIFIER",
                 "QUALIFIER_PRESENT", "BAD_DEVICE", "DEVICE_PRESENT"}

\* what Network.make_connection can return as its error type
NetworkErrors == {NO_ERROR, "INPUT_TO_INPUT", "OUTPUT_TO_OUTPUT",
                  "INPUT_CONNECTED", "PORT_ABSENT", "DEVICE_ABSENT"}

\* what Monitors.make_monitor can return
MonitorErrors == {NO_ERROR, "NOT_OUTPUT", "MONITOR_PRESENT", "DEVICE_ABSENT"}

-----------------------------------------------------------------------------
(* Symbols of a file *)

Sym(type, id) == [type |-> type, id |-> id]
Nm(s) == Sym(NAME, lookup(s))
Kw(s) == Sym(KEYWORD, lookup(s))
Num(digits) == Sym(NUMBER, digits)
Punct(type) == Sym(type, None)
Invalid == Sym(NoneType, None)


-----------------------------------------------------------------------------
(* The scanner, character by character.  A character is a string of length *)
(* one, the empty string is what read(1) returns at the end of the file.   *)
(* The scanner's data is the record sc; the file itself is the variable    *)
(* file.                                                                   *)

\* str.isalpha, str.isdigit, str.isspace and str.isalnum on the characters
\* of the files below
Letters == {"D", "E", "V", "I", "C", "S", "O", "N", "T", "M", "R"}
Digits == {"0", "1", "2", "3", "4", "5", "6", "7", "8", "9"}
Spaces == {" ", "\n", "\t"}
isalpha(c) == c \in Letters
isdigit(c) == c \in Digits
isspace(c) == c \in Spaces
isalnum(c) == isalpha(c) \/ isdigit(c)

\* the digit a digit character stands for
DigitValue(c) ==
    CHOOSE d \in 0..9 :
        <<"0", "1", "2", "3", "4", "5", "6", "7", "8", "9">>[d + 1] = c

\* a keyword list from which MONITORS is missing
keywords_list_short == {"DEVICES", "CONNECTIONS"}

\* Scanner.keywords_list
keywords_list == {"DEVICES", "CONNECTIONS", "MONITORS"}

\* Names.lookup of one string in the table name_list: the table afterwards
\* and the id of the string, ids counting from 0 in order of first lookup
Names_lookup(name_list, name_string) ==
    IF \E i \in 1..Len(name_list) : name_list[i] = name_string
    THEN [names |-> name_list,
          id |-> (CHOOSE i \in 1..Len(name_list) :
                      name_list[i] = name_string) - 1]
    ELSE [names |-> Append(name_list, name_string), id |-> Len(name_list)]

\* the scanner's data
Sc ==
    [file |-> file, file_pos |-> file_pos,
     current_character |-> current_character,
     line_number |-> line_number,
     cursor_pos_at_start_of_line |-> cursor_pos_at_start_of_line,
     names |-> names, warnings |-> warnings]

\* file.read(1)
read(sc) ==
    IF sc.file_pos < Len(sc.file)
    THEN [sc EXCEPT !.file_pos = sc.file_pos + 1,
                    !.current_character = sc.file[sc.file_pos + 1]]
    ELSE [sc EXCEPT !.current_character = ""]

\* the position file.readline() leaves the file at: after the next newline,
\* or the end of the file
LineEnd(f, from) ==
    IF \E k \in (from + 1)..Len(f) : f[k] = "\n"
    THEN CHOOSE k \in (from + 1)..Len(f) :
            /\ f[k] = "\n"
            /\ \A m \in (from + 1)..(k - 1) : f[m] # "\n"
    ELSE Len(f)

\* file.readline(), its result dropped
readline(sc) == [sc EXCEPT !.file_pos = LineEnd(sc.file, sc.file_pos)]

\* Scanner.__init__, lines 77-86, on the characters f of the file at path:
\* the keywords are interned first
Scanner(f) ==
    read([file |-> f, file_pos |-> 0, current_character |-> "",
          line_number |-> 1, cursor_pos_at_start_of_line |-> 0,
          names |-> <<"DEVICES", "CONNECTIONS", "MONITORS">>,
          warnings |-> 0])

NewScanner == Scanner(file)

\* Scanner.update_line_data
update_line_data(sc) ==
    [sc EXCEPT !.line_number = sc.line_number + 1,
               !.cursor_pos_at_start_of_line = sc.file_pos]

\* Scanner.advance
advance(sc) ==
    IF sc.current_character = "\n"
    THEN read(update_line_data(sc))
    ELSE read(sc)

\* skip_single_line_cmt passing the '#' only
skip_single_line_cmt_one_character(sc) == advance(sc)

\* Scanner.skip_single_line_cmt
skip_single_line_cmt(sc) == advance(update_line_data(readline(sc)))

\* skip_mult_line_cmt, lines 179-181: the warning printed, with a mutant
\* that prints nothing
unclosed_warning_silent(sc) == sc

unclosed_warning(sc) == [sc EXCEPT !.warnings = sc.warnings + 1]

\* skip_mult_line_cmt, lines 175-185: the loop and what follows it
RECURSIVE mult_line_loop(_)
mult_line_loop(sc) ==
    IF sc.current_character # "*"
    THEN IF sc.current_character = ""
         THEN unclosed_warning(sc)
         ELSE mult_line_loop(advance(sc))
    ELSE advance(sc)

\* Scanner.skip_mult_line_cmt
skip_mult_line_cmt(sc) == mult_line_loop(advance(sc))

\* Scanner.skip_spaces
RECURSIVE skip_spaces(_)
skip_spaces(sc) ==
    IF isspace(sc.current_character) THEN skip_spaces(advance(sc)) ELSE sc

\* skip_comments skipping one comment and not looking for another
comment_start_once(sc) ==
    IF sc.current_character = "#"
    THEN skip_single_line_cmt(sc)
    ELSE IF sc.current_character = "*"
         THEN skip_mult_line_cmt(sc)
         ELSE sc

\* skip_comments, lines 196-208: sc is what skip_spaces left
RECURSIVE skip_comments(_)
comment_start(sc) ==
    IF sc.current_character = "#"
    THEN skip_comments(skip_single_line_cmt(sc))
    ELSE IF sc.current_character = "*"
         THEN skip_comments(skip_mult_line_cmt(sc))
         ELSE sc

\* Scanner.skip_comments
skip_comments(sc) == comment_start(skip_spaces(sc))

\* Scanner.get_name: the scanner afterwards and the name
RECURSIVE get_name_loop(_, _)
get_name_loop(sc, name) ==
    IF isalnum(sc.current_character)
    THEN get_name_loop(advance(sc), name \o sc.current_character)
    ELSE [sc |-> sc, name |-> name]

get_name(sc) == get_name_loop(sc, "")

\* Scanner.get_number: the scanner afterwards and the digits of the number
RECURSIVE get_number_loop(_, _)
get_number_loop(sc, number) ==
    IF isdigit(sc.current_character)
    THEN get_number_loop(advance(sc),
                         Append(number, DigitValue(sc.current_character)))
    ELSE [sc |-> sc, number |-> number]

get_number(sc) == get_number_loop(sc, <<>>)

\* get_symbol, lines 98-99: the symbol before its type is known
new_symbol(sc) ==
    [type |-> NoneType, id |-> None,
     cursor_position |-> sc.file_pos - 1,
     line_number |-> sc.line_number,
     cursor_pos_at_start_of_line |-> sc.cursor_pos_at_start_of_line]

\* get_symbol, lines 104-109: g is what get_name returned, k the lookup
name_symbol_id(sym, g, k) ==
    [sc |-> [g.sc EXCEPT !.names = k.names],
     symbol |-> [sym EXCEPT
                    !.type = IF g.name \in keywords_list
                             THEN KEYWORD ELSE NAME,
                    !.id = <<k.id>>]]

name_symbol(sym, g) ==
    name_symbol_id(sym, g, Names_lookup(g.sc.names, g.name))

\* get_symbol, lines 111-113: g is what get_number returned
number_symbol(sym, g) ==
    [sc |-> g.sc, symbol |-> [sym EXCEPT !.type = NUMBER, !.id = g.number]]

\* get_symbol returning a punctuation symbol without passing its character
punctuation_symbol_stays(sc, sym, type) ==
    [sc |-> sc, symbol |-> [sym EXCEPT !.type = type]]

\* get_symbol, lines 115-133: a punctuation character
punctuation_symbol(sc, sym, type) ==
    [sc |-> advance(sc), symbol |-> [sym EXCEPT !.type = type]]

\* get_symbol, lines 135-136: the end of the file, with a mutant that starts
\* the file again
eof_symbol_rewinds(sc, sym) ==
    [sc |-> [NewScanner EXCEPT !.names = sc.names],
     symbol |-> [sym EXCEPT !.type = EOF]]

eof_symbol(sc, sym) == [sc |-> sc, symbol |-> [sym EXCEPT !.type = EOF]]

\* get_symbol, lines 138-142: any other character, with a mutant that does
\* not move past it
invalid_symbol_stays(sc, sym) == [sc |-> sc, symbol |-> sym]

invalid_symbol(sc, sym) == [sc |-> advance(sc), symbol |-> sym]

\* get_symbol, lines 102-144: sc is what skip_comments left, sym the symbol
\* of lines 98-99
classify(sc, sym) ==
    CASE isalpha(sc.current_character) -> name_symbol(sym, get_name(sc))
      [] isdigit(sc.current_character) -> number_symbol(sym, get_number(sc))
      [] sc.current_character = "." -> punctuation_symbol(sc, sym, DOT)
      [] sc.current_character = "=" -> punctuation_symbol(sc, sym, EQUALS)
      [] sc.current_character = "/" ->
            punctuation_symbol(sc, sym, FORWARDS_SLASH)
      [] sc.current_character = "," -> punctuation_symbol(sc, sym, COMMA)
      [] sc.current_character = ";" ->
            punctuation_symbol(sc, sym, SEMICOLON)
      [] sc.current_character = "" -> eof_symbol(sc, sym)
      [] OTHER -> invalid_symbol(sc, sym)

\* get_symbol, lines 98-144: sc is what skip_comments left
symbol_at(sc) == classify(sc, new_symbol(sc))

\* Scanner.get_symbol on the characters of the file: the scanner afterwards
\* and the symbol returned
Scanner_get_symbol(sc) == symbol_at(skip_comments(sc))

\* n * c of Python: n copies of the string c, none if n is negative
RECURSIVE repeat(_, _)
repeat(n, c) == IF n <= 0 THEN "" ELSE c \o repeat(n - 1, c)

\* the characters of f from offset a up to offset b, as a string
RECURSIVE substring(_, _, _)
substring(f, a, b) ==
    IF a >= b THEN "" ELSE f[a + 1] \o substring(f, a + 1, b)

\* show_error_location, lines 247-255: the line readline returns after the
\* seek, without its trailing newline; e is where readline stops
error_line(f, start, e) ==
    IF e > start /\ f[e] = "\n"
    THEN substring(f, start, e - 1)
    ELSE substring(f, start, e)

\* show_error_location, lines 244 and 258-267: the two lines of output
\* with the caret moved one column to the left, and as they are
error_location_text_shifted(line, ln, caret_coll_num) ==
    "Line " \o ToString(ln) \o ": " \o line \o "\n"
    \o repeat(caret_coll_num + Len(ToString(ln)) + 6, " ")
    \o "^"
    \o repeat(Len(line) - caret_coll_num, " ")

error_location_text(line, ln, caret_coll_num) ==
    "Line " \o ToString(ln) \o ": " \o line \o "\n"
    \o repeat(caret_coll_num + Len(ToString(ln)) + 7, " ")
    \o "^"
    \o repeat(Len(line) - 1 - caret_coll_num, " ")

\* Scanner.show_error_location: the scanner afterwards, its file left where
\* readline stopped, and the text returned
show_error_location(sc, ln, cursor_pos_at_start, cursor_pos_of_err) ==
    [sc |-> [sc EXCEPT !.file_pos = LineEnd(sc.file, cursor_pos_at_start)],
     output |-> error_location_text(
                    error_line(sc.file, cursor_pos_at_start,
                               LineEnd(sc.file, cursor_pos_at_start)),
                    ln, cursor_pos_of_err - cursor_pos_at_start)]

-----------------------------------------------------------------------------
(* The parser's data, as one record, for the operators below.  fault is    *)
(* set when a method raises an exception nothing catches.                  *)

P ==
    [pos |-> pos, symbol |-> symbol, error_count |-> error_count,
     semerr_count |-> semerr_count, error_output |-> error_output,
     error_cursor |-> error_cursor, errline_num |-> errline_num,
     errline_pos |-> errline_pos, error_to_gui |-> error_to_gui,
     calls |-> calls, scanner |-> Sc, fault |-> FALSE]

\* Symbol(): the symbol of a new Parser
NoSymbol ==
    [type |-> NoneType, id |-> None, cursor_position |-> 0,
     line_number |-> 0, cursor_pos_at_start_of_line |-> 0]

\* Parser.__init__
NewParser ==
    [pos |-> 0, symbol |-> NoSymbol, error_count |-> 0, semerr_count |-> 0,
     error_output |-> <<>>, error_cursor |-> <<>>, errline_num |-> <<>>,
     errline_pos |-> <<>>, error_to_gui |-> <<>>, calls |-> <<>>,
     scanner |-> NewScanner, fault |-> FALSE]

\* Scanner.get_symbol as the parser sees it: the next symbol of the file,
\* EOF once it is exhausted; the file is one line with its k-th symbol at
\* cursor position k
get_symbol(st) ==
    IF st.pos < Len(input)
    THEN [st EXCEPT !.pos = st.pos + 1,
                    !.symbol = [type |-> input[st.pos + 1].type,
                                id |-> input[st.pos + 1].id,
                                cursor_position |-> st.pos + 1,
                                line_number |-> 1,
                                cursor_pos_at_start_of_line |-> 0]]
    ELSE [st EXCEPT !.pos = st.pos + 1,
                    !.symbol = [type |-> EOF, id |-> None,
                                cursor_position |-> Len(input) + 1,
                                line_number |-> 1,
                                cursor_pos_at_start_of_line |-> 0]]

\* the text display_error appends for each syntax error type
SyntaxMessage(error_type) ==
    CASE error_type = NO_KEYWORD_DEVICES ->
            "SyntaxError: Expected a keyword 'DEVICES'"
      [] error_type = NO_KEYWORD_CONNECTIONS ->
            "SyntaxError: Expected a keyword 'CONNECTIONS'"
      [] error_type = NO_KEYWORD_MONITORS ->
            "SyntaxError: Expected a keyword 'MONITORS'"
      [] error_type = NO_EQUALS -> "SyntaxError: Expected an equals sign"
      [] error_type = NO_SEMICOLON -> "SyntaxError: Expected a semicolon"
      [] error_type = NO_COMMA -> "SyntaxError: Expected a comma"
      [] error_type = NOT_NAME -> "SyntaxError: Expected a name"
      [] error_type = NOT_NUMBER -> "SyntaxError: Expected a number"
      [] error_type = NOT_SYMBOL -> "SyntaxError: Expected a legal symbol"
      [] OTHER -> "Unknown error occurred"

\* record_location putting the new location in front of the earlier ones
record_location_prepends(st) ==
    [st EXCEPT !.error_cursor = <<st.symbol.cursor_position>>
                                \o st.error_cursor,
               !.errline_num = <<st.symbol.line_number>> \o st.errline_num,
               !.errline_pos = <<st.symbol.cursor_pos_at_start_of_line>>
                               \o st.errline_pos]

\* the three appends that end every display_error* method
record_location(st) ==
    [st EXCEPT !.error_cursor = Append(st.error_cursor,
                                       st.symbol.cursor_position),
               !.errline_num = Append(st.errline_num,
                                      st.symbol.line_number),
               !.errline_pos = Append(st.errline_pos,
                                      st.symbol.cursor_pos_at_start_of_line)]

\* Parser.display_error
display_error(st, error_type) ==
    record_location(
        [st EXCEPT !.error_count = st.error_count + 1,
                   !.error_output = Append(st.error_output,
                                           SyntaxMessage(error_type))])

\* read_symbol_loop passing over invalid symbols without a diagnostic
RECURSIVE read_symbol_loop_silent(_)
read_symbol_loop_silent(st) ==
    IF st.symbol.type = NoneType
    THEN read_symbol_loop_silent(get_symbol(st))
    ELSE st

\* Parser.read_symbol: the loop over invalid symbols
RECURSIVE read_symbol_loop(_)
read_symbol_loop(st) ==
    IF st.symbol.type = NoneType
    THEN read_symbol_loop(get_symbol(display_error(st, NOT_SYMBOL)))
    ELSE st

\* Parser.read_symbol
read_symbol(st) == read_symbol_loop(get_symbol(st))

\* skip_stops without the comma
skip_stops_no_comma(st) ==
    \/ st.symbol.type = KEYWORD
    \/ st.symbol.type = SEMICOLON
    \/ st.symbol.type = EOF

\* skip_erratic_part: the symbols at which its loop returns
skip_stops(st) ==
    \/ st.symbol.type = COMMA
    \/ st.symbol.type = KEYWORD
    \/ st.symbol.type = SEMICOLON
    \/ st.symbol.type = EOF

\* Parser.skip_erratic_part
RECURSIVE skip_erratic_part(_)
skip_erratic_part(st) ==
    IF skip_stops(st) THEN st ELSE skip_erratic_part(read_symbol(st))

\* check_names without the resynchronization
check_names_no_skip(st) ==
    IF st.symbol.type # NAME
    THEN [st |-> display_error(st, NOT_NAME), ret |-> FALSE]
    ELSE [st |-> st, ret |-> TRUE]

\* Parser.check_names
check_names(st) ==
    IF st.symbol.type # NAME
    THEN [st |-> skip_erratic_part(display_error(st, NOT_NAME)), ret |-> FALSE]
    ELSE [st |-> st, ret |-> TRUE]

\* check_number without the resynchronization
check_number_no_skip(st) ==
    IF st.symbol.type # NUMBER
    THEN [st |-> display_error(st, NOT_NUMBER), ret |-> FALSE]
    ELSE [st |-> st, ret |-> TRUE]

\* Parser.check_number
check_number(st) ==
    IF st.symbol.type # NUMBER
    THEN [st |-> skip_erratic_part(display_error(st, NOT_NUMBER)),
          ret |-> FALSE]
    ELSE [st |-> st, ret |-> TRUE]

\* Parser.check_side
check_side(st, side) ==
    IF side = 0
    THEN IF st.symbol.type # EQUALS
         THEN [st |-> skip_erratic_part(display_error(st, NO_EQUALS)),
               ret |-> FALSE]
         ELSE [st |-> st, ret |-> TRUE]
    ELSE IF st.symbol.type = KEYWORD \/ st.symbol.type = EOF
         THEN [st |-> skip_erratic_part(display_error(st, NO_SEMICOLON)),
               ret |-> FALSE]
         ELSE IF st.symbol.type = COMMA \/ st.symbol.type = SEMICOLON
              THEN [st |-> st, ret |-> TRUE]
              ELSE [st |-> skip_erratic_part(display_error(st, NO_COMMA)),
                    ret |-> FALSE]

\* parameter_value staying on the number
parameter_value_stays(c) ==
    IF c.ret = FALSE
    THEN [st |-> c.st, ret |-> None]
    ELSE [st |-> c.st, ret |-> <<int(c.st.symbol.id)>>]

\* get_parameter, lines 233-237: c is what check_number found
parameter_value(c) ==
    IF c.ret = FALSE
    THEN [st |-> c.st, ret |-> None]
    ELSE [st |-> read_symbol(c.st), ret |-> <<int(c.st.symbol.id)>>]

\* Parser.get_parameter: ret is None or <<the parameter>>
get_parameter(st) == parameter_value(check_number(read_symbol(st)))

-----------------------------------------------------------------------------
(* Semantic diagnostics *)

\* the message display_error_device builds
DeviceMessage(error_type, device_id_str, device_type_str) ==
    CASE error_type = "INVALID_QUALIFIER" ->
            "InvalidParameterError: Parameter value of Device '"
                \o device_id_str \o "' is not valid"
      [] error_type = "NO_QUALIFIER" ->
            "MissingParameterError: Parameter of Device '"
                \o device_id_str \o "' is not specified"
      [] error_type = "QUALIFIER_PRESENT" ->
            "ExcessParametersError: Device '" \o device_id_str
                \o "' has too many parameters specified"
      [] error_type = "BAD_DEVICE" ->
            "TypeNotFoundError: Device's type '" \o device_type_str
                \o "' does not match one of the following"
      [] error_type = "DEVICE_PRESENT" ->
            "RepeatedIdentifierError: Device '" \o device_id_str
                \o "' is already defined"
      [] OTHER -> "Unknown error occurred"

\* Parser.display_error_device
display_error_device(st, error_type, identifier_id, type_id) ==
    record_location(
        [st EXCEPT !.error_count = st.error_count + 1,
                   !.semerr_count = st.semerr_count + 1,
                   !.error_output =
                       Append(st.error_output,
                              DeviceMessage(error_type,
                                            get_name_string(identifier_id),
                                            get_name_string(type_id)))])

\* "" for None, else the name (after prefix) of a device or port
opt_str(prefix, name_id) ==
    IF name_id = None THEN "" ELSE prefix \o get_name_string(name_id)

\* the message display_error_connection builds
ConnectionMessage(error_type, device_str1, port_str1, device_str2, port_str2) ==
    CASE error_type = "INPUT_TO_INPUT" ->
            "IllegalConnectionError: Signal '" \o device_str1 \o port_str1
                \o "' and '" \o device_str2 \o port_str2
                \o "' are both input signals"
      [] error_type = "OUTPUT_TO_OUTPUT" ->
            "IllegalConnectionError: Signal '" \o device_str1 \o port_str1
                \o "' and '" \o device_str2 \o port_str2
                \o "' are both output signals"
      [] error_type = "INPUT_CONNECTED" ->
            "InputPortConnectionPresentError: Signal '" \o device_str1
                \o port_str1 \o "' is already connected"
      [] error_type = "PORT_ABSENT" ->
            "InvalidPortError: Device '" \o device_str1
                \o "' does not have port '" \o port_str1 \o "'"
      [] error_type = "DEVICE_ABSENT" ->
            "DeviceAbsentError:Device '" \o device_str1 \o "' is not defined"
      [] OTHER -> "Unknown error occurred"

\* Parser.display_error_connection
display_error_connection(st, error_type, sig1_device, sig1_port, sig2_device, sig2_port) ==
    record_location(
        [st EXCEPT !.error_count = st.error_count + 1,
                   !.semerr_count = st.semerr_count + 1,
                   !.error_output =
                       Append(st.error_output,
                              ConnectionMessage(error_type,
                                                opt_str("", sig1_device),
                                                opt_str(".", sig1_port),
                                                opt_str("", sig2_device),
                                                opt_str(".", sig2_port)))])

\* the message display_error_monitor builds
MonitorMessage(error_type, device_str, port_str) ==
    CASE error_type = "NOT_OUTPUT" ->
            "MonitorNotOutputSignalError: Signal '" \o device_str \o port_str
                \o "' is not an output"
      [] error_type = "MONITOR_PRESENT" ->
            "MonitorPresentError: Signal '" \o device_str \o port_str
                \o "' is already monitored"
      [] error_type = "DEVICE_ABSENT" ->
            "DeviceAbsentError:Device '" \o device_str \o "' is not defined"
      [] OTHER -> "Unknown error occurred"

\* Parser.display_error_monitor: port_str is assigned only when port_id is
\* not None, and the first two formats read it
display_error_monitor(st, error_type, device_id, port_id) ==
    LET s1 == [st EXCEPT !.error_count = st.error_count + 1,
                         !.semerr_count = st.semerr_count + 1]
    IN  IF port_id = None /\ error_type \in {"NOT_OUTPUT", "MONITOR_PRESENT"}
        THEN [s1 EXCEPT !.fault = TRUE]
        ELSE record_location(
                 [s1 EXCEPT !.error_output =
                     Append(s1.error_output,
                            MonitorMessage(error_type,
                                           get_name_string(device_id),
                                           opt_str(".", port_id)))])

-----------------------------------------------------------------------------
(* The items of the three sections.  Each method is split at its reads of  *)
(* the next symbol; a later part takes what the earlier parts found.       *)

\* device_end calling make_device whatever error_count is
device_end_always_builds(st, error_type, identifier, type_id, param) ==
    IF st.symbol.type = COMMA \/ st.symbol.type = SEMICOLON
    THEN IF error_type # NO_ERROR
         THEN [st |-> display_error_device(
                          [st EXCEPT
                              !.calls = Append(st.calls,
                                  <<"make_device", identifier,
                                    type_id, param, error_type>>),
                              !.semerr_count = st.semerr_count + 1],
                          error_type, identifier, type_id),
               ret |-> FALSE]
         ELSE [st |-> [st EXCEPT
                          !.calls = Append(st.calls,
                              <<"make_device", identifier,
                                type_id, param, error_type>>)],
               ret |-> TRUE]
    ELSE IF st.symbol.type = KEYWORD \/ st.symbol.type = EOF
         THEN [st |-> display_error(st, NO_SEMICOLON), ret |-> FALSE]
         ELSE [st |-> skip_erratic_part(display_error(st, NO_COMMA)),
               ret |-> FALSE]

\* device_no_separator running recovery at a keyword and at EOF as well
device_no_separator_skips(st) ==
    IF st.symbol.type = KEYWORD \/ st.symbol.type = EOF
    THEN [st |-> skip_erratic_part(read_symbol(
                     display_error(st, NO_SEMICOLON))),
          ret |-> FALSE]
    ELSE [st |-> skip_erratic_part(display_error(st, NO_COMMA)),
          ret |-> FALSE]

\* add_device, lines 211-219: st.symbol is neither a comma nor a semicolon
device_no_separator(st) ==
    IF st.symbol.type = KEYWORD \/ st.symbol.type = EOF
    THEN [st |-> display_error(st, NO_SEMICOLON), ret |-> FALSE]
    ELSE [st |-> skip_erratic_part(display_error(st, NO_COMMA)),
          ret |-> FALSE]

\* add_device, lines 196-219: st.symbol follows the type and its parameter
device_end(st, error_type, identifier, type_id, param) ==
    IF st.symbol.type = COMMA \/ st.symbol.type = SEMICOLON
    THEN IF st.error_count = 0
         THEN IF error_type # NO_ERROR
              THEN [st |-> display_error_device(
                               [st EXCEPT
                                   !.calls = Append(st.calls,
                                       <<"make_device", identifier,
                                         type_id, param, error_type>>),
                                   !.semerr_count = st.semerr_count + 1],
                               error_type, identifier, type_id),
                    ret |-> FALSE]
              ELSE [st |-> [st EXCEPT
                               !.calls = Append(st.calls,
                                   <<"make_device", identifier,
                                     type_id, param, error_type>>)],
                    ret |-> TRUE]
         ELSE [st |-> st, ret |-> TRUE]
    ELSE device_no_separator(st)

\* device_param_end with the parameter not handed to the builder
device_param_end_drops(g, error_type, identifier, type_id) ==
    IF g.ret = None
    THEN [st |-> g.st, ret |-> FALSE]
    ELSE device_end(g.st, error_type, identifier, type_id, None)

\* add_device, lines 191-194: g is what get_parameter returned
device_param_end(g, error_type, identifier, type_id) ==
    IF g.ret = None
    THEN [st |-> g.st, ret |-> FALSE]
    ELSE device_end(g.st, error_type, identifier, type_id, g.ret)

\* add_device, lines 189-191: st.symbol follows the type
device_param(st, error_type, identifier, type_id) ==
    IF st.symbol.type = FORWARDS_SLASH
    THEN device_param_end(get_parameter(st), error_type, identifier, type_id)
    ELSE device_end(st, error_type, identifier, type_id, None)

\* add_device, lines 181-186: c is what check_names found for the type
device_type(c, error_type, identifier) ==
    IF c.ret = FALSE
    THEN [st |-> c.st, ret |-> FALSE]
    ELSE device_param(read_symbol(c.st), error_type, identifier,
                      c.st.symbol.id)

\* device_equals without the resynchronization after the missing equals sign
device_equals_no_skip(st, error_type, identifier) ==
    IF st.symbol.type = EQUALS
    THEN device_type(check_names(read_symbol(st)), error_type, identifier)
    ELSE [st |-> display_error(st, NO_EQUALS), ret |-> FALSE]

\* add_device, lines 178-180 and 221-224: st.symbol follows the identifier
device_equals(st, error_type, identifier) ==
    IF st.symbol.type = EQUALS
    THEN device_type(check_names(read_symbol(st)), error_type, identifier)
    ELSE [st |-> skip_erratic_part(display_error(st, NO_EQUALS)),
          ret |-> FALSE]

\* add_device, lines 171-176: c is what check_names found for the identifier
device_identifier(c, error_type) ==
    IF c.ret = FALSE
    THEN [st |-> c.st, ret |-> FALSE]
    ELSE device_equals(read_symbol(c.st), error_type, c.st.symbol.id)

\* Parser.add_device; error_type is what make_device answers if it is called
add_device(st, error_type) ==
    device_identifier(check_names(read_symbol(st)), error_type)

\* what signame returns on a syntax error
signame_error(st) ==
    [st |-> st, device_id |-> None, port_id |-> None, syntax_err |-> 1]

\* signame_no_comma reporting a missing comma whatever was read
signame_comma_only(st) == display_error(st, NO_COMMA)

\* signame, lines 402-408 and 422-428: st.symbol is what was read after a
\* symbol that cannot follow a right-hand signal
signame_no_comma(st) ==
    IF st.symbol.type = KEYWORD \/ st.symbol.type = EOF
    THEN display_error(st, NO_SEMICOLON)
    ELSE display_error(st, NO_COMMA)

\* signame, lines 385-388: k is what check_side found after the port
signame_side(k, device_id, port_id) ==
    IF k.ret = TRUE
    THEN [st |-> k.st, device_id |-> device_id, port_id |-> port_id,
          syntax_err |-> 0]
    ELSE signame_error(k.st)

\* signame, lines 379-385: c is what check_names found for the port
signame_port(c, side, device_id) ==
    IF c.ret = FALSE
    THEN signame_error(skip_erratic_part(c.st))
    ELSE signame_side(check_side(read_symbol(c.st), side), device_id,
                      c.st.symbol.id)

\* signame, lines 377-432: st.symbol follows the device name
signame_follow(st, side, device_id) ==
    CASE st.symbol.type = DOT ->
            signame_port(check_names(read_symbol(st)), side, device_id)
      [] st.symbol.type = COMMA \/ st.symbol.type = SEMICOLON ->
            IF side = 1
            THEN [st |-> st, device_id |-> device_id, port_id |-> None,
                  syntax_err |-> 0]
            ELSE signame_error(display_error(st, NO_EQUALS))
      [] st.symbol.type = EQUALS ->
            IF side = 0
            THEN [st |-> st, device_id |-> device_id, port_id |-> None,
                  syntax_err |-> 0]
            ELSE signame_error(
                     skip_erratic_part(signame_no_comma(read_symbol(st))))
      [] st.symbol.type = KEYWORD \/ st.symbol.type = EOF ->
            IF side = 1
            THEN signame_error(display_error(st, NO_SEMICOLON))
            ELSE signame_error(display_error(st, NO_EQUALS))
      [] OTHER ->
            IF side = 1
            THEN signame_error(
                     skip_erratic_part(signame_no_comma(read_symbol(st))))
            ELSE signame_error(
                     skip_erratic_part(display_error(st, NO_EQUALS)))

\* signame, lines 371-375: c is what check_names found for the device name
signame_device(c, side) ==
    IF c.ret = FALSE
    THEN signame_error(skip_erratic_part(c.st))
    ELSE signame_follow(read_symbol(c.st), side, c.st.symbol.id)

\* Parser.signame
signame(st, side) == signame_device(check_names(read_symbol(st)), side)

\* connection_make calling make_connection whatever error_count is
connection_make_always(a, b, outcome) ==
    IF outcome.error_type # NO_ERROR
    THEN [st |-> display_error_connection(
                     [b.st EXCEPT !.calls = Append(b.st.calls,
                         <<"make_connection", a.device_id,
                           a.port_id, b.device_id, b.port_id,
                           outcome.error_type>>)],
                     outcome.error_type, a.device_id, a.port_id,
                     b.device_id, b.port_id),
          ret |-> FALSE]
    ELSE [st |-> [b.st EXCEPT !.calls = Append(b.st.calls,
                     <<"make_connection", a.device_id, a.port_id,
                       b.device_id, b.port_id, outcome.error_type>>)],
          ret |-> TRUE]

\* add_connection, lines 284-301: a and b are the two signals
connection_make(a, b, outcome) ==
    IF b.st.error_count = 0
    THEN IF outcome.error_type # NO_ERROR
         THEN IF outcome.err_device = None
              THEN [st |-> display_error_connection(
                               [b.st EXCEPT !.calls = Append(b.st.calls,
                                   <<"make_connection", a.device_id,
                                     a.port_id, b.device_id, b.port_id,
                                     outcome.error_type>>)],
                               outcome.error_type, a.device_id, a.port_id,
                               b.device_id, b.port_id),
                    ret |-> FALSE]
              ELSE [st |-> display_error_connection(
                               [b.st EXCEPT !.calls = Append(b.st.calls,
                                   <<"make_connection", a.device_id,
                                     a.port_id, b.device_id, b.port_id,
                                     outcome.error_type>>)],
                               outcome.error_type, outcome.err_device,
                               outcome.err_port, None, None),
                    ret |-> FALSE]
         ELSE [st |-> [b.st EXCEPT !.calls = Append(b.st.calls,
                          <<"make_connection", a.device_id, a.port_id,
                            b.device_id, b.port_id, outcome.error_type>>)],
               ret |-> TRUE]
    ELSE [st |-> b.st, ret |-> TRUE]

\* add_connection, lines 281-283: b is what signame() returned
connection_rhs(a, b, outcome) ==
    IF b.syntax_err = 1
    THEN [st |-> b.st, ret |-> FALSE]
    ELSE connection_make(a, b, outcome)

\* add_connection, lines 278-281: a is what signame(0) returned
connection_lhs(a, outcome) ==
    IF a.syntax_err = 1
    THEN [st |-> a.st, ret |-> FALSE]
    ELSE connection_rhs(a, signame(a.st, 1), outcome)

\* Parser.add_connection; outcome is what make_connection answers if called
add_connection(st, outcome) == connection_lhs(signame(st, 0), outcome)

\* monitor_make calling make_monitor whatever error_count is
monitor_make_always(a, error_type) ==
    IF a.syntax_err = 1
    THEN [st |-> a.st, ret |-> FALSE]
    ELSE IF error_type # NO_ERROR
         THEN [st |-> display_error_monitor(
                          [a.st EXCEPT
                              !.calls = Append(a.st.calls,
                                  <<"make_monitor", a.device_id,
                                    a.port_id, error_type>>),
                              !.semerr_count = a.st.semerr_count + 1],
                          error_type, a.device_id, a.port_id),
               ret |-> FALSE]
         ELSE [st |-> [a.st EXCEPT
                          !.calls = Append(a.st.calls,
                              <<"make_monitor", a.device_id,
                                a.port_id, error_type>>)],
               ret |-> TRUE]

\* add_monitor, lines 342-355: a is what signame() returned
monitor_make(a, error_type) ==
    IF a.syntax_err = 1
    THEN [st |-> a.st, ret |-> FALSE]
    ELSE IF a.st.error_count = 0
         THEN IF error_type # NO_ERROR
              THEN [st |-> display_error_monitor(
                               [a.st EXCEPT
                                   !.calls = Append(a.st.calls,
                                       <<"make_monitor", a.device_id,
                                         a.port_id, error_type>>),
                                   !.semerr_count = a.st.semerr_count + 1],
                               error_type, a.device_id, a.port_id),
                    ret |-> FALSE]
              ELSE [st |-> [a.st EXCEPT
                               !.calls = Append(a.st.calls,
                                   <<"make_monitor", a.device_id,
                                     a.port_id, error_type>>)],
                    ret |-> TRUE]
         ELSE [st |-> a.st, ret |-> TRUE]

\* Parser.add_monitor; error_type is what make_monitor answers if called
add_monitor(st, error_type) == monitor_make(signame(st, 1), error_type)

-----------------------------------------------------------------------------
(* The end of parse_network *)

\* the name of the file in the header of print_msg
FileName == "definition.txt"

\* print_msg, lines 117-121 and 128-131: the call of show_error_location
\* for diagnostic i (from 1)
location_entry(st, i) ==
    show_error_location(st.scanner, st.errline_num[i], st.errline_pos[i],
                        st.error_cursor[i])

\* print_msg, lines 115-121 and 126-131: one turn of the loop, r being
\* what show_error_location returned
print_one(st, n, r) ==
    [st EXCEPT !.error_to_gui =
                   st.error_to_gui \o <<st.error_output[n], r.output>>,
               !.scanner = r.sc]

print_entry(st, n) == print_one(st, n, location_entry(st, n))

\* print_msg, lines 114-121 and 125-131: the loop over the located errors
RECURSIVE print_located(_, _)
print_located(st, n) ==
    IF n = 0 THEN st ELSE print_entry(print_located(st, n - 1), n)

\* Parser.print_msg
print_msg(st, success) ==
    IF success = TRUE
    THEN [st EXCEPT !.error_to_gui =
             Append(st.error_to_gui,
                    "Parsed successfully! Valid definition file!")]
    ELSE LET s1 == [st EXCEPT !.error_to_gui =
                       Append(st.error_to_gui,
                              "File '" \o FileName \o "' contains "
                              \o ToString(st.error_count) \o " error(s): "
                              \o ToString(st.error_count - st.semerr_count)
                              \o " syntax error(s) and "
                              \o ToString(st.semerr_count)
                              \o " semantic error(s)\n")]
             n == Len(st.error_cursor)
             s2 == print_located(s1, n)
         IN  IF st.error_count > n
             THEN \* line 123 reads the loop variable i, unassigned if n = 0
                  IF n = 0
                  THEN [s2 EXCEPT !.fault = TRUE]
                  ELSE [s2 EXCEPT !.error_to_gui =
                           Append(s2.error_to_gui, s2.error_output[n])]
             ELSE s2

\* check_connected with the answer of check_network left out of success
check_connected_flag_ignored(st, outcome) ==
    IF st.error_count = 0
    THEN [st |-> [st EXCEPT
                     !.calls = Append(st.calls,
                                      <<"check_network", outcome.flag4>>),
                     !.semerr_count =
                         st.semerr_count + (IF outcome.flag4 THEN 0 ELSE 1),
                     !.error_count =
                         st.error_count + (IF outcome.flag4 THEN 0 ELSE 1)],
          success |-> TRUE]
    ELSE [st |-> st, success |-> FALSE]

\* parse_network, lines 68-82; outcome is what check_network answers
check_connected(st, outcome) ==
    IF st.error_count = 0
    THEN LET s1 == [st EXCEPT !.calls = Append(st.calls,
                                        <<"check_network", outcome.flag4>>)]
         IN  IF outcome.flag4 = FALSE
             THEN [st |-> [s1 EXCEPT
                      !.semerr_count = s1.semerr_count + 1,
                      !.error_count = s1.error_count + 1,
                      !.error_output =
                          Append(s1.error_output,
                                 "InputPortNotConnectedError: Input port '"
                                 \o get_name_string(outcome.port_id)
                                 \o "' of device '"
                                 \o get_name_string(outcome.device_id)
                                 \o "' is not connected")],
                   success |-> FALSE]
             ELSE [st |-> s1, success |-> TRUE]
    ELSE [st |-> st, success |-> FALSE]

\* parse_network, lines 83-84: c is what lines 68-82 left
parse_network_return(st, success) ==
    [st |-> st, ret |-> IF st.fault THEN None ELSE <<success>>]

\* parse_network_print reading one more symbol before it prints
parse_network_print_reads(c) ==
    parse_network_return(print_msg(read_symbol(c.st), c.success), c.success)

\* parse_network, lines 83-84
parse_network_print(c) ==
    parse_network_return(print_msg(c.st, c.success), c.success)

\* parse_network, lines 68-84: ret is None if print_msg raised
parse_network_end(st, outcome) ==
    parse_network_print(check_connected(st, outcome))

-----------------------------------------------------------------------------
(* The files the parser is run on *)

\* the valid definition file of the specification's round-trip example
ValidFile ==
    <<Kw("DEVICES"), Nm("SW1"), Punct(EQUALS), Nm("SWITCH"),
      Punct(FORWARDS_SLASH), Num(<<1>>), Punct(COMMA),
      Nm("CK1"), Punct(EQUALS), Nm("CLOCK"), Punct(FORWARDS_SLASH),
      Num(<<2>>), Punct(SEMICOLON),
      Kw("CONNECTIONS"), Nm("SW1"), Punct(EQUALS), Nm("CK1"), Punct(DOT),
      Nm("I1"), Punct(SEMICOLON),
      Kw("MONITORS"), Nm("CK1"), Punct(SEMICOLON)>>

\* the file of the single-fault example: no '=' after SW1
MissingEqualsFile ==
    <<Kw("DEVICES"), Nm("SW1"), Nm("SWITCH"),
      Punct(FORWARDS_SLASH), Num(<<1>>), Punct(COMMA),
      Nm("SW2"), Punct(EQUALS), Nm("SWITCH"), Punct(FORWARDS_SLASH),
      Num(<<1>>), Punct(SEMICOLON),
      Kw("CONNECTIONS"), Nm("SW1"), Punct(EQUALS), Nm("SW2"), Punct(DOT),
      Nm("I1"), Punct(SEMICOLON),
      Kw("MONITORS"), Nm("SW2"), Punct(SEMICOLON)>>

\* a file without its CONNECTIONS section
MissingConnectionsFile ==
    <<Kw("DEVICES"), Nm("SW1"), Punct(EQUALS), Nm("SWITCH"),
      Punct(FORWARDS_SLASH), Num(<<1>>), Punct(SEMICOLON),
      Kw("MONITORS"), Nm("SW1"), Punct(SEMICOLON)>>

\* a file with two invalid symbols in a row before its first keyword
InvalidSymbolsFile ==
    <<Invalid, Invalid, Kw("DEVICES"), Nm("SW1"), Punct(EQUALS),
      Nm("SWITCH"), Punct(SEMICOLON)>>

Seeds ==
    {ValidFile, MissingEqualsFile, MissingConnectionsFile, InvalidSymbolsFile}

\* the symbols an edit may insert: one of every kind the scanner produces
NoiseSymbols ==
    {Punct(DOT), Punct(FORWARDS_SLASH), Punct(COMMA), Punct(SEMICOLON),
     Punct(EQUALS), Kw("DEVICES"), Kw("CONNECTIONS"), Kw("MONITORS"),
     Num(<<0, 2>>), Nm("SW2"), Invalid}

NoiseSeqs == UNION {[1..n -> NoiseSymbols] : n \in 0..MaxNoise}

Min(a, b) == IF a < b THEN a ELSE b

\* seed with, at one place, up to MaxDrop symbols (or all the rest) removed
\* and up to MaxNoise arbitrary symbols inserted
Edits(seed) ==
    {SubSeq(seed, 1, i) \o noise \o SubSeq(seed, j + 1, Len(seed)) :
        <<i, j, noise>> \in
            {t \in (0..Len(seed)) \X (0..Len(seed)) \X NoiseSeqs :
                /\ t[1] <= t[2]
                /\ t[2] <= t[1] + MaxDrop \/ t[2] = Len(seed)}}

Inputs == UNION {Edits(seed) : seed \in Seeds}

-----------------------------------------------------------------------------
(* What the external builders may answer *)

ConnectionOutcomes ==
    {[error_type |-> e, err_device |-> None, err_port |-> None] :
        e \in NetworkErrors}
    \cup {[error_type |-> e, err_device |-> lookup("CK1"), err_port |-> p] :
            e \in NetworkErrors \ {NO_ERROR}, p \in {None, lookup("I1")}}

CheckOutcomes ==
    {[flag4 |-> TRUE, device_id |-> None, port_id |-> None],
     [flag4 |-> FALSE, device_id |-> lookup("CK1"), port_id |-> lookup("I1")]}

-----------------------------------------------------------------------------
(* The command layer of command_manager.py.  A command is a record kept by *)
(* its number; the dictionaries and device lists the commands copy and     *)
(* hand back are objects, named by the command and the field that holds    *)
(* them, so that two names of one object see each other's changes.         *)
(* m is the manager with all it reaches: the gui's path and cycle count,   *)
(* the stacks, the commands, the current dictionary and device list.       *)

\* the error codes of CommandManager.__init__, lines 591-597, that the
\* modelled commands return besides NO_ERROR
INVALID_ARGUMENT == "INVALID_ARGUMENT"
OSCILLATING_NETWORK == "OSCILLATING_NETWORK"
NOTHING_TO_UNDO == "NOTHING_TO_UNDO"
NOTHING_TO_REDO == "NOTHING_TO_REDO"
SIMULATION_NOT_STARTED == "SIMULATION_NOT_STARTED"
NO_FILE == "NO_FILE"
INVALID_DEFINITION_FILE == "INVALID_DEFINITION_FILE"

\* the name of the current dictionary, or device list, while no command
\* holds it: such are the objects the manager is constructed with, with no
\* signal recorded and the devices of a network that is replaced before any
\* command reads them
Unowned == <<0, "loaded">>

\* the devices a definition file gives once parsed: a switch SW1, initially
\* high, and a clock CK1 of half period 1, which is monitored; the network
\* built on them has no stable state while both are high
LoadedDevices == [switch_state |-> 1, clock_state |-> 0]

\* gui.switches, by name
Switches == {"SW1"}

\* the manager's variables as one value
Manager ==
    [path |-> path, undo_stack |-> undo_stack, redo_stack |-> redo_stack,
     commands |-> commands, completed_cycles |-> completed_cycles,
     monitors_dictionary |-> monitors_dictionary,
     devices_list |-> devices_list, dictionaries |-> dictionaries,
     device_lists |-> device_lists]

\* CommandManager.__init__ and Gui.__init__, the path not yet given
NewManager ==
    [path |-> None, undo_stack |-> <<>>, redo_stack |-> <<>>,
     commands |-> <<>>, completed_cycles |-> 0,
     monitors_dictionary |-> Unowned, devices_list |-> Unowned,
     dictionaries |-> (Unowned :> <<>>),
     device_lists |-> (Unowned :> LoadedDevices)]

\* what a user sees of the simulation: the signals recorded for the
\* monitor, the device states and the completed-cycle count
Observed(m) ==
    [signals |-> m.dictionaries[m.monitors_dictionary],
     devices |-> m.device_lists[m.devices_list],
     completed_cycles |-> m.completed_cycles]

\* no call of the manager yet
NoCall ==
    [op |-> "none", id |-> 0, kind |-> "none", error_code |-> NO_ERROR,
     simulation_changed |-> FALSE, call |-> 0]

\* the gui is made for the file at path p, already parsed, or for none
\* (gui.py, line 1920)
ManagerStarts(p) ==
    /\ path = p
    /\ undo_stack = NewManager.undo_stack
    /\ redo_stack = NewManager.redo_stack
    /\ commands = NewManager.commands
    /\ completed_cycles = NewManager.completed_cycles
    /\ monitors_dictionary = NewManager.monitors_dictionary
    /\ devices_list = NewManager.devices_list
    /\ dictionaries = NewManager.dictionaries
    /\ device_lists = NewManager.device_lists
    /\ first = <<>>
    /\ last = NoCall

CommandManagerStarts == ManagerStarts(NewManager.path)

\* copy.deepcopy of the current dictionary, or device list, into field f of
\* command id
copy_dictionary(m, id, f) ==
    [m EXCEPT !.dictionaries =
        (<<id, f>> :> m.dictionaries[m.monitors_dictionary]) @@ @]

copy_devices(m, id, f) ==
    [m EXCEPT !.device_lists =
        (<<id, f>> :> m.device_lists[m.devices_list]) @@ @]

\* Devices.set_switch: the device of the current list is changed in place
set_switch(m, value) ==
    [m EXCEPT !.device_lists[m.devices_list].switch_state = value]

\* Monitors.reset_monitors: the lists of the current dictionary are emptied
reset_monitors(m) == [m EXCEPT !.dictionaries[m.monitors_dictionary] = <<>>]

\* Devices.cold_startup: the clock starts at a random level, here level
cold_startup(m, level) ==
    [m EXCEPT !.device_lists[m.devices_list].clock_state = level]

\* Monitors.record_signals: the level of the monitored output is appended
\* to its list in the current dictionary
record_signals(m) ==
    [m EXCEPT !.dictionaries[m.monitors_dictionary] =
        Append(@, m.device_lists[m.devices_list].clock_state)]

\* Network.execute_network: the clock changes level, in place; the value
\* returned is stable(m) afterwards
execute_network(m) ==
    [m EXCEPT !.device_lists[m.devices_list].clock_state = 1 - @]

stable(m) ==
    ~ /\ m.device_lists[m.devices_list].switch_state = 1
      /\ m.device_lists[m.devices_list].clock_state = 1

\* Gui.update_cycles
update_cycles(m, cycles) == [m EXCEPT !.completed_cycles = cycles]

\* what execute, undo and redo return: the manager afterwards and the code
Returned(m, error_code) == [m |-> m, error_code |-> error_code]

\* SwitchCommand.execute, lines 96-118
SwitchCommand_execute(m, id) ==
    IF m.commands[id].switch_name \in Switches
    THEN IF m.commands[id].value \in {0, 1}
         THEN Returned(set_switch(m, m.commands[id].value), NO_ERROR)
         ELSE Returned(m, INVALID_ARGUMENT)
    ELSE Returned(m, INVALID_ARGUMENT)

\* SwitchCommand.undo and SwitchCommand.redo, lines 120-140: the value of
\* the command is reversed and the command executed again
SwitchCommand_reverse(m, id) ==
    SwitchCommand_execute(
        [m EXCEPT !.commands[id].value = 1 - @], id)

\* RunCommand.execute and ContinueCommand.execute, their first lines: the
\* cycle count is kept and the dictionary and the device list are copied
save_initial(m, id) ==
    copy_devices(
        copy_dictionary(
            [m EXCEPT !.commands[id].initial_cycles = m.completed_cycles],
            id, "initial"),
        id, "initial")

\* the last lines of both: the dictionary and the device list are copied
save_final(m, id) ==
    copy_devices(copy_dictionary(m, id, "final"), id, "final")

\* the loop of both, lines 299-304 and 375-380, with k cycles to go
RECURSIVE simulate(_, _)
cycle_executed(m, k) ==
    IF stable(m)
    THEN simulate(record_signals(m), k - 1)
    ELSE Returned(m, OSCILLATING_NETWORK)

simulate(m, k) ==
    IF k = 0
    THEN Returned(m, NO_ERROR)
    ELSE cycle_executed(execute_network(m), k)

\* RunCommand.execute, lines 305-314: r is what the loop left
run_finished(r, id) ==
    IF r.error_code = NO_ERROR
    THEN Returned(
            save_final(update_cycles(r.m, r.m.commands[id].cycles), id),
            NO_ERROR)
    ELSE r

\* RunCommand.execute, lines 280-316
RunCommand_execute(m, id, level) ==
    IF m.commands[id].cycles < 0
    THEN Returned(save_initial(m, id), INVALID_ARGUMENT)
    ELSE run_finished(
            simulate(cold_startup(reset_monitors(save_initial(m, id)),
                                  level),
                     m.commands[id].cycles),
            id)

\* ContinueCommand.execute, lines 381-392: r is what the loop left
continue_finished(r, id) ==
    IF r.error_code = NO_ERROR
    THEN Returned(
            save_final(
                update_cycles(r.m, r.m.completed_cycles
                                   + r.m.commands[id].cycles),
                id),
            NO_ERROR)
    ELSE r

\* ContinueCommand.execute, lines 357-392
ContinueCommand_execute(m, id) ==
    IF m.completed_cycles = 0
    THEN Returned(save_initial(m, id), SIMULATION_NOT_STARTED)
    ELSE IF m.commands[id].cycles < 0
         THEN Returned(save_initial(m, id), INVALID_ARGUMENT)
         ELSE continue_finished(
                simulate(save_initial(m, id), m.commands[id].cycles), id)

\* RunCommand.undo and ContinueCommand.undo, lines 318-328 and 394-406:
\* the manager is handed the objects the command kept
simulation_undo(m, id) ==
    Returned(
        update_cycles(
            [m EXCEPT !.monitors_dictionary = <<id, "initial">>,
                      !.devices_list = <<id, "initial">>],
            m.commands[id].initial_cycles),
        NO_ERROR)

\* RunCommand.redo, lines 330-340
RunCommand_redo(m, id) ==
    Returned(
        update_cycles(
            [m EXCEPT !.monitors_dictionary = <<id, "final">>,
                      !.devices_list = <<id, "final">>],
            m.commands[id].cycles),
        NO_ERROR)

\* ContinueCommand.redo, lines 408-420
ContinueCommand_redo(m, id) ==
    Returned(
        update_cycles(
            [m EXCEPT !.monitors_dictionary = <<id, "final">>,
                      !.devices_list = <<id, "final">>],
            m.commands[id].initial_cycles + m.commands[id].cycles),
        NO_ERROR)

\* the file at a path parses without a diagnostic
parse_network_succeeds(p) == p = "valid.txt"

\* LoadCommand.execute, lines 505-535, after a parse without a diagnostic:
\* new objects, no cycle completed, both stacks cleared
load_new_instances(m, id) ==
    [m EXCEPT !.monitors_dictionary = <<id, "loaded">>,
              !.devices_list = <<id, "loaded">>,
              !.dictionaries = (<<id, "loaded">> :> <<>>),
              !.device_lists = (<<id, "loaded">> :> LoadedDevices),
              !.undo_stack = <<>>,
              !.redo_stack = <<>>,
              !.completed_cycles = 0,
              !.path = <<m.commands[id].path>>]

\* LoadCommand.execute, lines 477-535, on a definition file
LoadCommand_execute(m, id) ==
    IF parse_network_succeeds(m.commands[id].path)
    THEN Returned(load_new_instances(m, id), NO_ERROR)
    ELSE Returned(m, INVALID_DEFINITION_FILE)

\* command.execute(self): level is the level the clock starts a run at
Command_execute(m, id, level) ==
    CASE m.commands[id].kind = "load" -> LoadCommand_execute(m, id)
      [] m.commands[id].kind = "switch" -> SwitchCommand_execute(m, id)
      [] m.commands[id].kind = "run" -> RunCommand_execute(m, id, level)
      [] m.commands[id].kind = "continue" -> ContinueCommand_execute(m, id)

\* execute_command keeping every command, whatever its execute returned
executed_always_kept(r, id) ==
    Returned([r.m EXCEPT !.redo_stack = <<>>,
                         !.undo_stack = Append(@, id)],
             r.error_code)

\* execute_command, lines 608-613: r is what execute returned
executed(r, id) ==
    IF r.error_code = NO_ERROR
    THEN Returned([r.m EXCEPT !.redo_stack = <<>>,
                              !.undo_stack = Append(@, id)],
                  NO_ERROR)
    ELSE r

\* CommandManager.execute_command, lines 599-614, on a new command c
execute_command(m, c, level) ==
    IF m.path = None /\ c.kind # "load"
    THEN Returned(m, NO_FILE)
    ELSE executed(
            Command_execute([m EXCEPT !.commands = Append(@, c)],
                            Len(m.commands) + 1, level),
            Len(m.commands) + 1)

\* CommandManager.undo_command, lines 616-628; the undo of a LoadCommand,
\* lines 537-544, is the undo of the command below it
RECURSIVE undo_command(_)
command_undo(m, id) ==
    CASE m.commands[id].kind = "load" -> undo_command(m)
      [] m.commands[id].kind = "switch" -> SwitchCommand_reverse(m, id)
      [] m.commands[id].kind \in {"run", "continue"} ->
            simulation_undo(m, id)

undo_command(m) ==
    IF Len(m.undo_stack) > 0
    THEN command_undo(
            [m EXCEPT !.undo_stack = SubSeq(@, 1, Len(@) - 1),
                      !.redo_stack =
                          Append(@, m.undo_stack[Len(m.undo_stack)])],
            m.undo_stack[Len(m.undo_stack)])
    ELSE Returned(m, NOTHING_TO_UNDO)

\* CommandManager.redo_command, lines 630-642; the redo of a LoadCommand,
\* lines 546-553, is the redo of the command above it
RECURSIVE redo_command(_)
command_redo(m, id) ==
    CASE m.commands[id].kind = "load" -> redo_command(m)
      [] m.commands[id].kind = "switch" -> SwitchCommand_reverse(m, id)
      [] m.commands[id].kind = "run" -> RunCommand_redo(m, id)
      [] m.commands[id].kind = "continue" -> ContinueCommand_redo(m, id)

redo_command(m) ==
    IF Len(m.redo_stack) > 0
    THEN command_redo(
            [m EXCEPT !.redo_stack = SubSeq(@, 1, Len(@) - 1),
                      !.undo_stack =
                          Append(@, m.redo_stack[Len(m.redo_stack)])],
            m.redo_stack[Len(m.redo_stack)])
    ELSE Returned(m, NOTHING_TO_REDO)

-----------------------------------------------------------------------------
(* parse_network, step by step *)

\* the scanner's variables after Scanner.__init__ on the file
ScannerStarts ==
    /\ file_pos = NewScanner.file_pos
    /\ current_character = NewScanner.current_character
    /\ line_number = NewScanner.line_number
    /\ cursor_pos_at_start_of_line = NewScanner.cursor_pos_at_start_of_line
    /\ names = NewScanner.names
    /\ warnings = NewScanner.warnings
    /\ returned = <<>>

\* the scanner's variables after a call
CommitScanner(sc) ==
    /\ file_pos' = sc.file_pos
    /\ current_character' = sc.current_character
    /\ line_number' = sc.line_number
    /\ cursor_pos_at_start_of_line' = sc.cursor_pos_at_start_of_line
    /\ names' = sc.names
    /\ warnings' = sc.warnings

\* the parser's data after a step
Commit(st) ==
    /\ pos' = st.pos
    /\ symbol' = st.symbol
    /\ error_count' = st.error_count
    /\ semerr_count' = st.semerr_count
    /\ error_output' = st.error_output
    /\ error_cursor' = st.error_cursor
    /\ errline_num' = st.errline_num
    /\ errline_pos' = st.errline_pos
    /\ error_to_gui' = st.error_to_gui
    /\ calls' = st.calls

Init ==
    /\ file = <<>>
    /\ ScannerStarts
    /\ input \in Inputs
    /\ pos = NewParser.pos
    /\ symbol = NewParser.symbol
    /\ error_count = NewParser.error_count
    /\ semerr_count = NewParser.semerr_count
    /\ error_output = NewParser.error_output
    /\ error_cursor = NewParser.error_cursor
    /\ errline_num = NewParser.errline_num
    /\ errline_pos = NewParser.errline_pos
    /\ error_to_gui = NewParser.error_to_gui
    /\ calls = NewParser.calls
    /\ flags = <<>>
    /\ section_errors = 0
    /\ CommandManagerStarts
    /\ flag = TRUE
    /\ pc = "parse_devices"
    /\ result = None

\* section_start taking any keyword for the section's own
section_start_any_keyword(st, keyword_id, error_type) ==
    IF st.symbol.type = KEYWORD
    THEN [st |-> st, ret |-> TRUE]
    ELSE [st |-> display_error(st, error_type), ret |-> FALSE]

\* section_start passing over a missing keyword in silence
section_start_silent(st, keyword_id, error_type) ==
    IF st.symbol.type = KEYWORD /\ st.symbol.id = keyword_id
    THEN [st |-> st, ret |-> TRUE]
    ELSE [st |-> st, ret |-> FALSE]

\* a section's first lines: the keyword, or the error for its absence
section_start(st, keyword_id, error_type) ==
    IF st.symbol.type = KEYWORD /\ st.symbol.id = keyword_id
    THEN [st |-> st, ret |-> TRUE]
    ELSE [st |-> display_error(st, error_type), ret |-> FALSE]

\* section_advance reading a symbol whatever the current one is
section_advance_always(st) == read_symbol(st)

\* parse_connections and parse_monitors: step over the semicolon
section_advance(st) ==
    IF st.symbol.type # KEYWORD /\ st.symbol.type # EOF
    THEN read_symbol(st)
    ELSE st

\* section_return with the answers of the items left out
section_return_by_end(st, section_flag) == st.symbol.type = SEMICOLON

\* what a parse_* method returns after its items
section_return(st, section_flag) ==
    IF st.symbol.type = SEMICOLON THEN section_flag ELSE FALSE

\* parse_devices, lines 140-143 and 156-158
ParseDevices ==
    /\ pc = "parse_devices"
    /\ LET r == section_start(read_symbol(P), DEVICES_ID, NO_KEYWORD_DEVICES)
       IN  /\ Commit(r.st)
           /\ flag' = TRUE
           /\ IF r.ret
              THEN pc' = "devices_first" /\ UNCHANGED flags
              ELSE pc' = "parse_connections" /\ flags' = Append(flags, FALSE)
    /\ UNCHANGED <<input, result>>
    /\ UNCHANGED scanner_vars
    /\ UNCHANGED command_vars
    /\ section_errors' = Len(error_output)

\* parse_devices, lines 144-150: one call of add_device
AddDevice ==
    /\ \/ pc = "devices_first"
       \/ pc = "devices_loop" /\ symbol.type = COMMA
    /\ \E error_type \in DeviceErrors :
          LET r == add_device(P, error_type)
          IN  /\ Commit(r.st)
              /\ flag' = (flag /\ r.ret)
    /\ pc' = "devices_loop"
    /\ UNCHANGED <<input, flags, result>>
    /\ UNCHANGED scanner_vars
    /\ UNCHANGED section_errors
    /\ UNCHANGED command_vars

\* parse_devices, lines 152-155
EndDevices ==
    /\ pc = "devices_loop"
    /\ symbol.type # COMMA
    /\ flags' = Append(flags, section_return(P, flag))
    /\ pc' = "parse_connections"
    /\ UNCHANGED <<input, pos, symbol, error_count, semerr_count,
                   error_output, error_cursor, errline_num, errline_pos,
                   error_to_gui, calls, flag,
                   result>>
    /\ UNCHANGED scanner_vars
    /\ UNCHANGED section_errors
    /\ UNCHANGED command_vars

\* parse_connections, lines 246-252 and 264-266
ParseConnections ==
    /\ pc = "parse_connections"
    /\ LET r == section_start(section_advance(P), CONNECTIONS_ID,
                              NO_KEYWORD_CONNECTIONS)
       IN  /\ Commit(r.st)
           /\ flag' = TRUE
           /\ IF r.ret
              THEN pc' = "connections_first" /\ UNCHANGED flags
              ELSE pc' = "parse_monitors" /\ flags' = Append(flags, FALSE)
    /\ UNCHANGED <<input, result>>
    /\ UNCHANGED scanner_vars
    /\ UNCHANGED command_vars
    /\ section_errors' = Len(error_output)

\* parse_connections, lines 253-258: one call of add_connection
AddConnection ==
    /\ \/ pc = "connections_first"
       \/ pc = "connections_loop" /\ symbol.type = COMMA
    /\ \E outcome \in ConnectionOutcomes :
          LET r == add_connection(P, outcome)
          IN  /\ Commit(r.st)
              /\ flag' = (flag /\ r.ret)
    /\ pc' = "connections_loop"
    /\ UNCHANGED <<input, flags, result>>
    /\ UNCHANGED scanner_vars
    /\ UNCHANGED section_errors
    /\ UNCHANGED command_vars

\* parse_connections, lines 260-263
EndConnections ==
    /\ pc = "connections_loop"
    /\ symbol.type # COMMA
    /\ flags' = Append(flags, section_return(P, flag))
    /\ pc' = "parse_monitors"
    /\ UNCHANGED <<input, pos, symbol, error_count, semerr_count,
                   error_output, error_cursor, errline_num, errline_pos,
                   error_to_gui, calls, flag,
                   result>>
    /\ UNCHANGED scanner_vars
    /\ UNCHANGED section_errors
    /\ UNCHANGED command_vars

\* parse_monitors, lines 310-315 and 327-329
ParseMonitors ==
    /\ pc = "parse_monitors"
    /\ LET r == section_start(section_advance(P), MONITORS_ID,
                              NO_KEYWORD_MONITORS)
       IN  /\ Commit(r.st)
           /\ flag' = TRUE
           /\ IF r.ret
              THEN pc' = "monitors_first" /\ UNCHANGED flags
              ELSE pc' = "parse_network_end" /\ flags' = Append(flags, FALSE)
    /\ UNCHANGED <<input, result>>
    /\ UNCHANGED scanner_vars
    /\ UNCHANGED command_vars
    /\ section_errors' = Len(error_output)

\* parse_monitors, lines 316-321: one call of add_monitor
AddMonitor ==
    /\ \/ pc = "monitors_first"
       \/ pc = "monitors_loop" /\ symbol.type = COMMA
    /\ \E error_type \in MonitorErrors :
          LET r == add_monitor(P, error_type)
          IN  /\ Commit(r.st)
              /\ flag' = (flag /\ r.ret)
              /\ pc' = IF r.st.fault THEN "fault" ELSE "monitors_loop"
    /\ UNCHANGED <<input, flags, result>>
    /\ UNCHANGED scanner_vars
    /\ UNCHANGED section_errors
    /\ UNCHANGED command_vars

\* parse_monitors, lines 323-326
EndMonitors ==
    /\ pc = "monitors_loop"
    /\ symbol.type # COMMA
    /\ flags' = Append(flags, section_return(P, flag))
    /\ pc' = "parse_network_end"
    /\ UNCHANGED <<input, pos, symbol, error_count, semerr_count,
                   error_output, error_cursor, errline_num, errline_pos,
                   error_to_gui, calls, flag,
                   result>>
    /\ UNCHANGED scanner_vars
    /\ UNCHANGED section_errors
    /\ UNCHANGED command_vars

\* parse_network, lines 68-84
ParseNetworkEnd ==
    /\ pc = "parse_network_end"
    /\ \E outcome \in CheckOutcomes :
          LET r == parse_network_end(P, outcome)
          IN  /\ Commit(r.st)
              /\ CommitScanner(r.st.scanner)
              /\ result' = r.ret
              /\ pc' = IF r.st.fault THEN "fault" ELSE "done"
    /\ UNCHANGED <<input, flags, flag, file, returned>>
    /\ UNCHANGED section_errors
    /\ UNCHANGED command_vars

Next ==
    \/ ParseDevices
    \/ AddDevice
    \/ EndDevices
    \/ ParseConnections
    \/ AddConnection
    \/ EndConnections
    \/ ParseMonitors
    \/ AddMonitor
    \/ EndMonitors
    \/ ParseNetworkEnd

Spec == Init /\ [][Next]_vars

-----------------------------------------------------------------------------
(* skip_erratic_part by itself, one iteration of its loop per step, started *)
(* on any file of up to MaxSkipLen symbols after any number of reads        *)

SkipInputs == UNION {[1..n -> NoiseSymbols] : n \in 0..MaxSkipLen}

\* the parser after k calls of get_symbol
RECURSIVE get_symbols(_, _)
get_symbols(st, k) ==
    IF k = 0 THEN st ELSE get_symbol(get_symbols(st, k - 1))

InitSkip ==
    /\ file = <<>>
    /\ ScannerStarts
    /\ input \in SkipInputs
    /\ \E k \in 0..(Len(input) + 1) :
          /\ pos = get_symbols(NewParser, k).pos
          /\ symbol = get_symbols(NewParser, k).symbol
    /\ error_count = NewParser.error_count
    /\ semerr_count = NewParser.semerr_count
    /\ error_output = NewParser.error_output
    /\ error_cursor = NewParser.error_cursor
    /\ errline_num = NewParser.errline_num
    /\ errline_pos = NewParser.errline_pos
    /\ error_to_gui = NewParser.error_to_gui
    /\ calls = NewParser.calls
    /\ flags = <<>>
    /\ section_errors = 0
    /\ CommandManagerStarts
    /\ flag = TRUE
    /\ pc = "skip_loop"
    /\ result = None

\* skip_erratic_part, lines 672-677: the loop goes on and reads a symbol
SkipIterate ==
    /\ pc = "skip_loop"
    /\ ~skip_stops(P)
    /\ Commit(read_symbol(P))
    /\ UNCHANGED <<input, flags, flag, pc, result>>
    /\ UNCHANGED scanner_vars
    /\ UNCHANGED section_errors
    /\ UNCHANGED command_vars

\* skip_erratic_part, lines 672-676: the loop ends
SkipReturn ==
    /\ pc = "skip_loop"
    /\ skip_stops(P)
    /\ pc' = "skip_done"
    /\ UNCHANGED <<input, pos, symbol, error_count, semerr_count,
                   error_output, error_cursor, errline_num, errline_pos,
                   error_to_gui, calls, flags,
                   flag, result>>
    /\ UNCHANGED scanner_vars
    /\ UNCHANGED section_errors
    /\ UNCHANGED command_vars

NextSkip ==
    \/ SkipIterate
    \/ SkipReturn

\* the loop is run to its end: nothing else runs in the parser's thread
SpecSkip == InitSkip /\ [][NextSkip]_vars /\ WF_vars(NextSkip)

-----------------------------------------------------------------------------
(* The scanner by itself: get_symbol called again and again on a file of   *)
(* characters put together from up to MaxChunks pieces                      *)

\* the pieces: the keywords, a letter, a digit, white space, the comment
\* openers, the punctuation, an illegal character, and two whole comments
Chunks ==
    {<<"D", "E", "V", "I", "C", "E", "S">>,
     <<"C", "O", "N", "N", "E", "C", "T", "I", "O", "N", "S">>,
     <<"M", "O", "N", "I", "T", "O", "R", "S">>,
     <<"S">>, <<"1">>, <<" ">>, <<"\n">>, <<"#">>, <<"*">>,
     <<".">>, <<"/">>, <<",">>, <<";">>, <<"=">>, <<"?">>,
     <<"*", "\n", "*">>, <<"#", "S", "\n">>, <<"#", "*", "\n">>}

\* the pieces of the files on which diagnostics are located as well
LocateChunks ==
    {<<"S">>, <<";">>, <<" ">>, <<"\n">>, <<"#">>, <<"*">>, <<"?">>}

\* the files put together from up to n pieces of a set
RECURSIVE FilesOf(_, _)
FilesOf(chunks, n) ==
    IF n = 0 THEN {<<>>}
    ELSE FilesOf(chunks, n - 1)
         \cup {f \o c : f \in FilesOf(chunks, n - 1), c \in chunks}

\* a parser that is not run
ParserIdle ==
    /\ input = <<>>
    /\ pos = NewParser.pos
    /\ symbol = NewParser.symbol
    /\ error_count = NewParser.error_count
    /\ semerr_count = NewParser.semerr_count
    /\ error_output = NewParser.error_output
    /\ error_cursor = NewParser.error_cursor
    /\ errline_num = NewParser.errline_num
    /\ errline_pos = NewParser.errline_pos
    /\ error_to_gui = NewParser.error_to_gui
    /\ calls = NewParser.calls
    /\ flags = <<>>
    /\ section_errors = 0
    /\ flag = TRUE
    /\ result = None

ParserStarts ==
    /\ ParserIdle
    /\ CommandManagerStarts

InitScan ==
    /\ file \in FilesOf(Chunks, MaxChunks)
    /\ ScannerStarts
    /\ ParserStarts
    /\ pc = "scanning"

\* the number of EOF symbols returned so far
EofReads == Cardinality({i \in 1..Len(returned) : returned[i].type = EOF})

\* one call of Scanner.get_symbol, the caller keeping the symbol
GetSymbol ==
    /\ pc = "scanning"
    /\ EofReads < MaxEofReads
    /\ CommitScanner(Scanner_get_symbol(Sc).sc)
    /\ symbol' = Scanner_get_symbol(Sc).symbol
    /\ returned' = Append(returned, Scanner_get_symbol(Sc).symbol)
    /\ UNCHANGED <<input, pos, error_count, semerr_count, error_output,
                   error_cursor, errline_num, errline_pos, error_to_gui,
                   calls, flags, flag, pc, result, file>>
    /\ UNCHANGED section_errors
    /\ UNCHANGED command_vars

NextScan == GetSymbol

SpecScan == InitScan /\ [][NextScan]_vars

\* the caller goes on calling get_symbol as long as it may: weak fairness
\* of GetSymbol, its enabling condition written out
CallerGoesOn ==
    \/ []<>~(pc = "scanning" /\ EofReads < MaxEofReads)
    \/ []<><<GetSymbol>>_vars

SpecScanFair == SpecScan /\ CallerGoesOn

-----------------------------------------------------------------------------
(* The scanner followed by a parser that locates diagnostics: the parser   *)
(* keeps the symbol get_symbol last returned (read_symbol, lines 687-694)  *)
(* and between two reads it may record a diagnostic at that symbol         *)

InitLocate ==
    /\ file \in FilesOf(LocateChunks, MaxChunks)
    /\ ScannerStarts
    /\ ParserStarts
    /\ pc = "scanning"

\* Parser.display_error at the current symbol; display_error_device,
\* display_error_connection and display_error_monitor record the location
\* in the same way (lines 569-571, 628-630, 658-660)
DisplayError ==
    /\ pc = "scanning"
    /\ returned # <<>>
    /\ Len(error_cursor) < MaxDiagnostics
    /\ \E error_type \in {NO_SEMICOLON, NOT_SYMBOL} :
          Commit(display_error(P, error_type))
    /\ UNCHANGED <<input, flags, flag, pc, result>>
    /\ UNCHANGED scanner_vars
    /\ UNCHANGED section_errors
    /\ UNCHANGED command_vars

\* parse_network, lines 83-84: print_msg ends the run; success is False
\* once a diagnostic was recorded
PrintMsg ==
    /\ pc = "scanning"
    /\ returned # <<>>
    /\ Commit(print_msg(P, error_count = 0))
    /\ CommitScanner(print_msg(P, error_count = 0).scanner)
    /\ pc' = "printed"
    /\ UNCHANGED <<input, flags, flag, result, file, returned>>
    /\ UNCHANGED section_errors
    /\ UNCHANGED command_vars

NextLocate ==
    \/ GetSymbol
    \/ DisplayError
    \/ PrintMsg

SpecLocate == InitLocate /\ [][NextLocate]_vars

-----------------------------------------------------------------------------
(* The scanner with show_error_location called between two calls of        *)
(* get_symbol, for the location of a symbol already returned                *)

InitShow ==
    /\ file \in FilesOf(LocateChunks, MaxChunks)
    /\ ScannerStarts
    /\ ParserStarts
    /\ pc = "scanning"

\* one call of Scanner.show_error_location, the caller keeping the text
ShowErrorLocation ==
    /\ pc = "scanning"
    /\ Len(error_to_gui) < MaxShows
    /\ \E i \in 1..Len(returned) :
          /\ CommitScanner(
                 show_error_location(
                     Sc, returned[i].line_number,
                     returned[i].cursor_pos_at_start_of_line,
                     returned[i].cursor_position).sc)
          /\ error_to_gui' =
                 Append(error_to_gui,
                        show_error_location(
                            Sc, returned[i].line_number,
                            returned[i].cursor_pos_at_start_of_line,
                            returned[i].cursor_position).output)
    /\ UNCHANGED <<input, pos, symbol, error_count, semerr_count,
                   error_output, error_cursor, errline_num, errline_pos,
                   calls, flags, flag, pc, result, file, returned>>
    /\ UNCHANGED section_errors
    /\ UNCHANGED command_vars

NextShow ==
    \/ GetSymbol
    \/ ShowErrorLocation

SpecShow == InitShow /\ [][NextShow]_vars


-----------------------------------------------------------------------------
(* The command layer in use: the gui hands the manager new commands, and   *)
(* calls undo_command and redo_command, in any order                       *)

\* the commands the gui makes: LoadCommand(path), SwitchCommand(switch_name,
\* value), RunCommand(cycles), ContinueCommand(cycles)
Command(kind, p, switch_name, value, cycles) ==
    [kind |-> kind, path |-> p, switch_name |-> switch_name,
     value |-> value, cycles |-> cycles, initial_cycles |-> 0]

NewCommands ==
    {Command("load", p, "", 0, 0) : p \in {"valid.txt", "invalid.txt"}}
    \cup {Command("switch", "", n, v, 0) :
            n \in {"SW1", "CK1"}, v \in 0..2}
    \cup {Command(k, "", "", 0, n) :
            k \in {"run", "continue"}, n \in (-1)..MaxCycles}

\* the commands a stack holds: nothing else reaches a command
Live(m) ==
    {m.undo_stack[i] : i \in 1..Len(m.undo_stack)}
    \cup {m.redo_stack[i] : i \in 1..Len(m.redo_stack)}

\* the commands are numbered in the order they were made, those no stack
\* holds left out
Position(m, id) == Cardinality({j \in Live(m) : j <= id})

Positions(m, stack) == [i \in 1..Len(stack) |-> Position(m, stack[i])]

\* the name of an object by the position of the command that holds it
Renamed(m, o) ==
    IF o[1] \in Live(m) THEN <<Position(m, o[1]), o[2]>> ELSE Unowned

\* the objects of a kind that are reached: those of the commands that are,
\* and the current one
Reached(m, objects, current) ==
    {o \in DOMAIN objects : o[1] \in Live(m)} \cup {current}

Kept(m, objects, current) ==
    [o \in {Renamed(m, x) : x \in Reached(m, objects, current)} |->
        objects[CHOOSE x \in Reached(m, objects, current) :
                    Renamed(m, x) = o]]

\* the manager with what nothing reaches left out
Collected(m) ==
    [m EXCEPT
        !.commands =
            [p \in 1..Cardinality(Live(m)) |->
                m.commands[CHOOSE j \in Live(m) : Position(m, j) = p]],
        !.undo_stack = Positions(m, @),
        !.redo_stack = Positions(m, @),
        !.monitors_dictionary = Renamed(m, @),
        !.devices_list = Renamed(m, @),
        !.dictionaries = Kept(m, @, m.monitors_dictionary),
        !.device_lists = Kept(m, @, m.devices_list)]

\* the manager's variables become those of m, what nothing reaches left out
CommitCollected(m) ==
    /\ path' = m.path
    /\ undo_stack' = m.undo_stack
    /\ redo_stack' = m.redo_stack
    /\ commands' = m.commands
    /\ completed_cycles' = m.completed_cycles
    /\ monitors_dictionary' = m.monitors_dictionary
    /\ devices_list' = m.devices_list
    /\ dictionaries' = m.dictionaries
    /\ device_lists' = m.device_lists

CommitManager(m) == CommitCollected(Collected(m))

\* a call of the manager as last keeps it: id is the command the call
\* left on a stack (0 if none), r what the call returned; whether the call
\* changed what is seen of the simulation; the number of the call
ManagerCall(op, id, kind, r) ==
    [op |-> op, id |-> id, kind |-> kind, error_code |-> r.error_code,
     simulation_changed |-> Observed(r.m) # Observed(Manager),
     call |-> last.call + 1]

\* what is seen before and after the execute of a command that is kept
FirstExecuted(r) == [before |-> Observed(Manager), after |-> Observed(r.m)]

InitCommands ==
    /\ file = <<>>
    /\ ScannerStarts
    /\ ParserIdle
    /\ \E p \in {None, <<"valid.txt">>} : ManagerStarts(p)
    /\ pc = "commands"

\* the gui calls execute_command on a new command
ExecuteCommandOf(c, r) ==
    /\ CommitManager(r.m)
    /\ first' = IF r.error_code = NO_ERROR
                THEN Append(SubSeq(first, 1, Len(r.m.undo_stack) - 1),
                            FirstExecuted(r))
                ELSE first
    /\ last' = ManagerCall("execute",
                           IF r.error_code = NO_ERROR
                           THEN Len(r.m.undo_stack) ELSE 0,
                           c.kind, r)

ExecuteCommand ==
    /\ pc = "commands"
    /\ last.call < MaxCalls
    /\ Len(commands) < MaxCommands
    /\ \E c \in NewCommands, level \in {0, 1} :
          ExecuteCommandOf(c, execute_command(Manager, c, level))
    /\ UNCHANGED parser_vars
    /\ UNCHANGED scanner_vars

\* the top of a stack and its kind, 0 and "none" if the stack is empty
Top(stack) == IF stack = <<>> THEN 0 ELSE stack[Len(stack)]

KindOf(id) == IF id = 0 THEN "none" ELSE commands[id].kind

\* the gui calls undo_command
UndoCommand ==
    /\ pc = "commands"
    /\ last.call < MaxCalls
    /\ CommitManager(undo_command(Manager).m)
    /\ last' = ManagerCall("undo", Top(undo_stack), KindOf(Top(undo_stack)),
                    undo_command(Manager))
    /\ UNCHANGED first
    /\ UNCHANGED parser_vars
    /\ UNCHANGED scanner_vars

\* the gui calls redo_command
RedoCommand ==
    /\ pc = "commands"
    /\ last.call < MaxCalls
    /\ CommitManager(redo_command(Manager).m)
    /\ last' = ManagerCall("redo", Top(redo_stack), KindOf(Top(redo_stack)),
                    redo_command(Manager))
    /\ UNCHANGED first
    /\ UNCHANGED parser_vars
    /\ UNCHANGED scanner_vars

NextCommands ==
    \/ ExecuteCommand
    \/ UndoCommand
    \/ RedoCommand

SpecCommands == InitCommands /\ [][NextCommands]_vars

-----------------------------------------------------------------------------
(* The grammar of the specification, for the properties of accepted files: *)
(*   network     := devices ';' connections ';' monitors ';'               *)
(*   devices     := 'DEVICES' device_def (',' device_def)*                 *)
(*   device_def  := NAME '=' NAME ('/' NUMBER)?                            *)
(*   connections := 'CONNECTIONS' connection (',' connection)*             *)
(*   connection  := signal '=' signal                                      *)
(*   monitors    := 'MONITORS' signal (',' signal)*                        *)
(*   signal      := NAME ('.' NAME)?                                       *)

\* the symbols at which recovery stops
SyncTypes == {COMMA, KEYWORD, SEMICOLON, EOF}

TypesOf(seq) == [i \in 1..Len(seq) |-> seq[i].type]

\* the index of the first symbol of type t in seq, 0 if there is none
FirstOf(seq, t) ==
    IF \E i \in 1..Len(seq) : seq[i].type = t
    THEN CHOOSE i \in 1..Len(seq) :
            /\ seq[i].type = t
            /\ \A j \in 1..(i - 1) : seq[j].type # t
    ELSE 0

\* the pieces of seq between its symbols of type t
RECURSIVE Split(_, _)
Split(seq, t) ==
    IF FirstOf(seq, t) = 0
    THEN <<seq>>
    ELSE <<SubSeq(seq, 1, FirstOf(seq, t) - 1)>>
         \o Split(SubSeq(seq, FirstOf(seq, t) + 1, Len(seq)), t)

IsDeviceDef(item) ==
    \/ TypesOf(item) = <<NAME, EQUALS, NAME>>
    \/ TypesOf(item) = <<NAME, EQUALS, NAME, FORWARDS_SLASH, NUMBER>>

IsSignal(seq) ==
    \/ TypesOf(seq) = <<NAME>>
    \/ TypesOf(seq) = <<NAME, DOT, NAME>>

IsConnection(item) ==
    /\ FirstOf(item, EQUALS) # 0
    /\ IsSignal(SubSeq(item, 1, FirstOf(item, EQUALS) - 1))
    /\ IsSignal(SubSeq(item, FirstOf(item, EQUALS) + 1, Len(item)))

\* seq is the section keyword followed by a comma-separated list of items
IsSection(seq, keyword, IsItem(_)) ==
    /\ seq # <<>>
    /\ seq[1] = Kw(keyword)
    /\ \A i \in 1..Len(Split(Tail(seq), COMMA)) :
          IsItem(Split(Tail(seq), COMMA)[i])

\* seq derives network
DerivesNetwork(seq) ==
    /\ Len(Split(seq, SEMICOLON)) = 4
    /\ Split(seq, SEMICOLON)[4] = <<>>
    /\ IsSection(Split(seq, SEMICOLON)[1], "DEVICES", IsDeviceDef)
    /\ IsSection(Split(seq, SEMICOLON)[2], "CONNECTIONS", IsConnection)
    /\ IsSection(Split(seq, SEMICOLON)[3], "MONITORS", IsSignal)

\* the index of the k-th semicolon of seq, 0 if there are fewer
RECURSIVE NthSemicolon(_, _)
NthSemicolon(seq, k) ==
    IF FirstOf(seq, SEMICOLON) = 0 THEN 0
    ELSE IF k = 1 THEN FirstOf(seq, SEMICOLON)
    ELSE IF NthSemicolon(SubSeq(seq, FirstOf(seq, SEMICOLON) + 1, Len(seq)),
                         k - 1) = 0
         THEN 0
         ELSE FirstOf(seq, SEMICOLON)
              + NthSemicolon(SubSeq(seq, FirstOf(seq, SEMICOLON) + 1,
                                    Len(seq)), k - 1)

\* the file up to the semicolon that ends its third section
NetworkPrefix(seq) == SubSeq(seq, 1, NthSemicolon(seq, 3))

\* the value of a decimal numeral
RECURSIVE DecimalValue(_)
DecimalValue(digits) ==
    IF Len(digits) = 0 THEN 0
    ELSE 10 * DecimalValue(SubSeq(digits, 1, Len(digits) - 1))
         + digits[Len(digits)]

\* the device and the optional port of a signal
SignalArgs(seq) == <<seq[1].id, IF Len(seq) = 3 THEN seq[3].id ELSE None>>

\* the builder call an item of the grammar stands for, answered with success
DeviceCall(item) ==
    <<"make_device", item[1].id, item[3].id,
      IF Len(item) = 5 THEN <<DecimalValue(item[5].id)>> ELSE None, NO_ERROR>>

ConnectionCall(item) ==
    <<"make_connection">>
    \o SignalArgs(SubSeq(item, 1, FirstOf(item, EQUALS) - 1))
    \o SignalArgs(SubSeq(item, FirstOf(item, EQUALS) + 1, Len(item)))
    \o <<NO_ERROR>>

MonitorCall(item) == <<"make_monitor">> \o SignalArgs(item) \o <<NO_ERROR>>

ItemCalls(section, Call(_)) ==
    [i \in 1..Len(Split(Tail(section), COMMA)) |->
        Call(Split(Tail(section), COMMA)[i])]

\* the calls a file that derives network stands for, in source order
ExpectedCalls(seq) ==
    ItemCalls(Split(seq, SEMICOLON)[1], DeviceCall)
    \o ItemCalls(Split(seq, SEMICOLON)[2], ConnectionCall)
    \o ItemCalls(Split(seq, SEMICOLON)[3], MonitorCall)
    \o << <<"check_network", TRUE>> >>

\* every builder call so far was answered with success
AllAnswersOk ==
    \A i \in 1..Len(calls) :
        IF calls[i][1] = "check_network"
        THEN calls[i][2] = TRUE
        ELSE calls[i][Len(calls[i])] = NO_ERROR

-----------------------------------------------------------------------------
(* Properties of parse_network *)

\* C1: whenever parse_network returns, it returns True if and only if
\* error_count is 0 at that moment, whatever the file and the builders'
\* answers were.
ReturnsTrueIffNoErrors ==
    pc = "done" => ((result = <<TRUE>>) <=> (error_count = 0))

\* a return of False after a builder refused a call
ReturnedFalseAfterSemanticError ==
    /\ pc = "done"
    /\ result = <<FALSE>>
    /\ semerr_count > 0
    /\ calls # <<>>

\* C2: in every reachable state semerr_count is at most error_count.
SemanticCountBounded == semerr_count <= error_count

\* C3: parse_network never raises: no state is reached in which a method of
\* the parser has read a variable that was never assigned.
NoUnhandledFault == pc # "fault"

\* the diagnostic of parse_network for input I1 of CK1
UnconnectedMessage ==
    "InputPortNotConnectedError: Input port 'I1' of device 'CK1' "
    \o "is not connected"

\* C4: once check_network has answered that an input is unconnected (it is
\* asked only after three sections without diagnostics), parse_network has
\* returned False with that one semantic diagnostic and both counters at 1.
UnconnectedInputReported ==
    (/\ calls # <<>>
     /\ calls[Len(calls)][1] = "check_network"
     /\ calls[Len(calls)][2] = FALSE)
    => /\ pc = "done"
       /\ result = <<FALSE>>
       /\ error_count = 1
       /\ semerr_count = 1
       /\ error_output = <<UnconnectedMessage>>

\* a call of make_device for SW2 has been made
SW2Created ==
    \E i \in 1..Len(calls) :
        calls[i][1] = "make_device" /\ calls[i][2] = lookup("SW2")

IsPrefix(a, b) == Len(a) <= Len(b) /\ a = SubSeq(b, 1, Len(a))

\* C6: if the file, up to the semicolon of its third section, derives network
\* and every builder call so far was answered with success, then no
\* diagnostic has been recorded, nothing has raised, the builder calls made
\* so far are the first of the calls the file stands for (one per device_def,
\* connection and monitored signal, in source order, with the parsed names,
\* optional ports and integer parameter), and once parse_network is through
\* it has returned True after exactly those calls and a check_network.
ConformingFileRoundTrips ==
    (DerivesNetwork(NetworkPrefix(input)) /\ AllAnswersOk)
    => /\ error_count = 0
       /\ error_output = <<>>
       /\ pc # "fault"
       /\ IsPrefix(calls, ExpectedCalls(NetworkPrefix(input)))
       /\ pc = "done"
          => /\ result = <<TRUE>>
             /\ calls = ExpectedCalls(NetworkPrefix(input))

\* the example file has been accepted after the four calls it stands for
ExampleFileBuilt ==
    /\ input = ValidFile
    /\ pc = "done"
    /\ result = <<TRUE>>
    /\ error_output = <<>>
    /\ calls = << <<"make_device", lookup("SW1"), lookup("SWITCH"), <<1>>,
                    NO_ERROR>>,
                  <<"make_device", lookup("CK1"), lookup("CLOCK"), <<2>>,
                    NO_ERROR>>,
                  <<"make_connection", lookup("SW1"), None, lookup("CK1"),
                    lookup("I1"), NO_ERROR>>,
                  <<"make_monitor", lookup("CK1"), None, NO_ERROR>>,
                  <<"check_network", TRUE>> >>

\* C7: if parse_network has returned True, the symbols read, which end with
\* the current one, derive network: three sections DEVICES, CONNECTIONS,
\* MONITORS in that order, each a keyword and a comma-separated list of
\* well-formed items that ends with a semicolon.
AcceptedFilesDeriveNetwork ==
    (pc = "done" /\ result = <<TRUE>>)
    => /\ pos = NthSemicolon(input, 3)
       /\ DerivesNetwork(SubSeq(input, 1, pos))

\* a file has been accepted that goes on after its third section
AcceptedWithTrailingSymbols ==
    /\ pc = "done"
    /\ result = <<TRUE>>
    /\ pos < Len(input)

-----------------------------------------------------------------------------
(* Properties of skip_erratic_part *)

\* C8: started on any symbol of any file, skip_erratic_part returns; when it
\* has returned the current symbol is a COMMA, a KEYWORD, a SEMICOLON or EOF;
\* and it is the first such symbol at or after the one it started on: the
\* loop moves on only from a symbol that is none of the four, and the
\* symbols it passes on the way to the next current one are none of them.
SkipResynchronizes ==
    /\ <>(pc = "skip_done")
    /\ [](pc = "skip_done" => symbol.type \in SyncTypes)
    /\ [][pc' = "skip_loop"
          => /\ symbol.type \notin SyncTypes
             /\ symbol'.cursor_position > symbol.cursor_position
             /\ \A k \in (symbol.cursor_position + 1)
                         ..(symbol'.cursor_position - 1) :
                   input[k].type \notin SyncTypes]_vars

\* the loop has passed an illegal symbol and returned at a comma
SkippedToComma ==
    /\ pc = "skip_done"
    /\ error_count = 1
    /\ symbol.type = COMMA
    /\ pos = 2

-----------------------------------------------------------------------------
(* Properties of error recovery in parse_network.  Every value of pc is a   *)
(* point of the section-level code: parse_network and the parse_* methods,  *)
(* between their calls of add_device, add_connection and add_monitor.       *)

\* the diagnostics for a missing section keyword
KeywordMessages ==
    {SyntaxMessage(e) : e \in {NO_KEYWORD_DEVICES, NO_KEYWORD_CONNECTIONS,
                               NO_KEYWORD_MONITORS}}

\* the other syntax diagnostics
ItemSyntaxMessages ==
    {SyntaxMessage(e) : e \in {NO_EQUALS, NO_SEMICOLON, NO_COMMA, NOT_NAME,
                               NOT_NUMBER, NOT_SYMBOL}}

ItemEnd(k) ==
    IF \E j \in (k + 1)..Len(input) : input[j].type \in SyncTypes
    THEN CHOOSE j \in (k + 1)..Len(input) :
            /\ input[j].type \in SyncTypes
            /\ \A i \in (k + 1)..(j - 1) : input[i].type \notin SyncTypes
    ELSE Len(input) + 1

\* the symbols of the item that starts after the current symbol
NextItem ==
    SubSeq(input, symbol.cursor_position + 1,
           ItemEnd(symbol.cursor_position) - 1)

\* that item is one of its section's grammar and ends with ',' or ';'
NextItemWellFormed ==
    /\ ItemEnd(symbol.cursor_position) <= Len(input)
    /\ input[ItemEnd(symbol.cursor_position)].type \in {COMMA, SEMICOLON}
    /\ pc \in {"devices_first", "devices_loop"} => IsDeviceDef(NextItem)
    /\ pc \in {"connections_first", "connections_loop"}
          => IsConnection(NextItem)
    /\ pc \in {"monitors_first", "monitors_loop"} => IsSignal(NextItem)

\* the step is one call of add_device, add_connection or add_monitor
IsItemStep ==
    /\ pc \in {"devices_first", "devices_loop", "connections_first",
               "connections_loop", "monitors_first", "monitors_loop"}
    /\ pc' \in {"devices_loop", "connections_loop", "monitors_loop", "fault"}

\* C10: each call of add_device, add_connection or add_monitor starts after
\* the current COMMA or KEYWORD and leaves the parser on the first COMMA,
\* KEYWORD, SEMICOLON or EOF after it, faulty item or not: recovery never
\* goes past the end of the faulty item and the next item is read from its
\* first symbol; a well-formed item after an earlier error adds no
\* diagnostic; and every item that is not well-formed adds at least one, so
\* each of several faulty items of a section is reported.
FaultBoundedToOneItem ==
    [][IsItemStep
       => /\ symbol'.cursor_position = ItemEnd(symbol.cursor_position)
          /\ (NextItemWellFormed /\ error_count > 0)
                => error_output' = error_output
          /\ ~NextItemWellFormed
                => Len(error_output') > Len(error_output)]_vars

\* both devices lacked their equals sign and each got its diagnostic
TwoFaultsReported ==
    /\ pc = "parse_connections"
    /\ error_output = <<SyntaxMessage(NO_EQUALS), SyntaxMessage(NO_EQUALS)>>
    /\ error_cursor = <<3, 8>>

\* the diagnostics a step adds
NewDiagnostics ==
    {error_output'[i] : i \in (Len(error_output) + 1)..Len(error_output')}

\* C11: in one call of add_device, add_connection or add_monitor a builder
\* is called only for an item that is well-formed and has added no syntax
\* diagnostic, and a call that adds a semantic diagnostic adds that one
\* diagnostic and no syntax diagnostic: no item gets both kinds.
ItemDiagnosticsOfOneKind ==
    [][IsItemStep
       => /\ calls' # calls
             => /\ NextItemWellFormed
                /\ Len(calls') = Len(calls) + 1
                /\ NewDiagnostics \cap ItemSyntaxMessages = {}
          /\ semerr_count' # semerr_count
             => /\ calls' # calls
                /\ Len(error_output') <= Len(error_output) + 1
          /\ NewDiagnostics \cap ItemSyntaxMessages # {}
             => /\ NewDiagnostics \subseteq ItemSyntaxMessages
                /\ semerr_count' = semerr_count
                /\ calls' = calls]_vars

\* make_connection refused a well-formed connection: one semantic diagnostic
ConnectionRefusedByBuilder ==
    /\ pc = "connections_loop"
    /\ error_count = 1
    /\ semerr_count = 1
    /\ Len(error_output) = 1
    /\ error_output[1] \notin ItemSyntaxMessages \cup KeywordMessages
    /\ calls[Len(calls)][1] = "make_connection"

-----------------------------------------------------------------------------
(* Properties of the scanner and of the locations of diagnostics *)

\* C12: the locations recorded with the diagnostics are in source order,
\* each line number and each cursor position at least the one recorded
\* before it, and a step only ever appends to the lists of diagnostics and
\* of their locations: nothing recorded is removed or moved.
DiagnosticsInSourceOrder ==
    /\ [](\A i \in 1..(Len(error_cursor) - 1) :
             /\ errline_num[i] <= errline_num[i + 1]
             /\ error_cursor[i] <= error_cursor[i + 1])
    /\ [][/\ IsPrefix(error_output, error_output')
          /\ IsPrefix(error_cursor, error_cursor')
          /\ IsPrefix(errline_num, errline_num')
          /\ IsPrefix(errline_pos, errline_pos')]_vars

\* two diagnostics have been recorded, the second on a later line
TwoDiagnosticsOnTwoLines ==
    /\ Len(error_output) = 2
    /\ Len(error_cursor) = 2
    /\ errline_num[1] < errline_num[2]
    /\ error_cursor[1] < error_cursor[2]

\* C13: once get_symbol has returned an EOF symbol, every symbol it returns
\* afterwards is an EOF symbol.
EofIsFinal ==
    \A i \in 1..Len(returned) :
        returned[i].type = EOF
        => \A j \in i..Len(returned) : returned[j].type = EOF

\* get_symbol was called again after the EOF that followed a name
EofReadTwiceAfterName ==
    /\ Len(returned) = 3
    /\ returned[1].type = NAME
    /\ returned[2].type = EOF
    /\ returned[3].type = EOF

\* the line that starts at offset start holds the character at offset cursor
LineHolds(start, cursor) ==
    /\ start <= cursor
    /\ cursor < Len(file)
    /\ \A k \in start..(cursor - 1) : file[k + 1] # "\n"

\* C14: for every symbol get_symbol has returned, the EOF symbol included,
\* cursor_pos_at_start_of_line is at most cursor_position and the line that
\* starts there holds the character at cursor_position.
LineTracked ==
    \A i \in 1..Len(returned) :
        LineHolds(returned[i].cursor_pos_at_start_of_line,
                  returned[i].cursor_position)

\* the number of newline characters among the first k characters of the file
NewlinesBefore(k) == Cardinality({i \in 1..k : file[i] = "\n"})

\* the offset at which a returned symbol starts: its cursor_position, and
\* for EOF the end of the file
StartOffset(sym) ==
    IF sym.type = EOF THEN Len(file) ELSE sym.cursor_position

\* C15: the line_number of every symbol get_symbol has returned is 1 plus
\* the number of newline characters before the symbol's first character.
LineNumberCountsNewlines ==
    \A i \in 1..Len(returned) :
        returned[i].line_number = 1 + NewlinesBefore(StartOffset(returned[i]))

\* the length of the longest run of characters of a set from offset c on
RECURSIVE RunLength(_, _)
RunLength(c, set) ==
    IF c < Len(file) /\ file[c + 1] \in set
    THEN 1 + RunLength(c + 1, set)
    ELSE 0

\* the n characters of the file from offset c on, as a string
RECURSIVE Text(_, _)
Text(c, n) == IF n = 0 THEN "" ELSE file[c + 1] \o Text(c + 1, n - 1)

\* the n digits of the file from offset c on
DigitsOf(c, n) == [k \in 1..n |-> DigitValue(file[c + k])]

\* the alphanumeric run that starts at offset c
NameAt(c) == Text(c, RunLength(c, Letters \cup Digits))

\* what the symbol that starts at offset c with the character ch has to be
ClassifiedAs(sym, c, ch) ==
    CASE ch \in Letters ->
            /\ sym.type = IF NameAt(c) \in {"DEVICES", "CONNECTIONS",
                                            "MONITORS"}
                          THEN KEYWORD ELSE NAME
            /\ Len(sym.id) = 1
            /\ sym.id[1] + 1 \in 1..Len(names)
            /\ names[sym.id[1] + 1] = NameAt(c)
      [] ch \in Digits ->
            /\ sym.type = NUMBER
            /\ sym.id = DigitsOf(c, RunLength(c, Digits))
      [] ch = "." -> sym.type = DOT /\ sym.id = None
      [] ch = "/" -> sym.type = FORWARDS_SLASH /\ sym.id = None
      [] ch = "," -> sym.type = COMMA /\ sym.id = None
      [] ch = ";" -> sym.type = SEMICOLON /\ sym.id = None
      [] ch = "=" -> sym.type = EQUALS /\ sym.id = None
      [] OTHER -> ch \notin Spaces \cup {"#", "*"}

\* the offset after the last character of the symbol that starts at c
EndOffset(c) ==
    CASE file[c + 1] \in Letters -> c + RunLength(c, Letters \cup Digits)
      [] file[c + 1] \in Digits -> c + RunLength(c, Digits)
      [] OTHER -> c + 1

\* C16: every symbol get_symbol has returned is classified by its first
\* character: a letter starts the longest alphanumeric run, KEYWORD exactly
\* when the run is DEVICES, CONNECTIONS or MONITORS and NAME otherwise, with
\* the interned id of the run; a digit starts the longest digit run, a
\* NUMBER with the digits as payload; . / , ; = give DOT, FORWARDS_SLASH,
\* COMMA, SEMICOLON, EQUALS without payload; EOF is returned only when the
\* stream is exhausted; and the next symbol starts after the run.
ClassifiedByFirstCharacter ==
    /\ \A a, b \in 1..Len(names) : names[a] = names[b] => a = b
    /\ names[DEVICES_ID[1] + 1] = "DEVICES"
    /\ names[CONNECTIONS_ID[1] + 1] = "CONNECTIONS"
    /\ names[MONITORS_ID[1] + 1] = "MONITORS"
    /\ \A i \in 1..Len(returned) :
          IF returned[i].type = EOF
          THEN /\ returned[i].id = None
               /\ file_pos = Len(file)
               /\ current_character = ""
          ELSE /\ returned[i].cursor_position \in 0..(Len(file) - 1)
               /\ ClassifiedAs(returned[i], returned[i].cursor_position,
                               file[returned[i].cursor_position + 1])
               /\ i < Len(returned) /\ returned[i + 1].type # EOF
                  => returned[i + 1].cursor_position
                        >= EndOffset(returned[i].cursor_position)

\* the keyword MONITORS, a dot and a number were returned in turn
KeywordDotNumberReturned ==
    /\ Len(returned) = 3
    /\ returned[1].type = KEYWORD /\ returned[1].id = MONITORS_ID
    /\ returned[2].type = DOT
    /\ returned[3].type = NUMBER /\ returned[3].id = <<1>>

\* the offset after the first character c at or after offset k, and the end
\* of the file if there is none
After(c, k) ==
    IF \E j \in (k + 1)..Len(file) : file[j] = c
    THEN CHOOSE j \in (k + 1)..Len(file) :
            /\ file[j] = c
            /\ \A h \in (k + 1)..(j - 1) : file[h] # c
    ELSE Len(file)

\* the first offset at or after k that lies outside white space, single-line
\* comments ('#' to the end of the line) and multi-line comments ('*' to the
\* next '*'); the end of the file if there is none, or if a multi-line
\* comment is not closed
RECURSIVE SkipFrom(_)
SkipFrom(k) ==
    IF k >= Len(file) THEN Len(file)
    ELSE IF file[k + 1] \in Spaces THEN SkipFrom(k + 1)
    ELSE IF file[k + 1] = "#" THEN SkipFrom(After("\n", k + 1))
    ELSE IF file[k + 1] = "*" THEN SkipFrom(After("*", k + 1))
    ELSE k

\* the characters that start a name, a number or a punctuation symbol
SymbolStarts == Letters \cup Digits \cup {".", "/", ",", ";", "="}

\* the symbol returned after the i-th is the one that starts at the first
\* offset at or after k outside white space and comments
NextStartsFrom(i, k) ==
    i < Len(returned)
    => IF SkipFrom(k) = Len(file)
       THEN returned[i + 1].type = EOF
       ELSE /\ returned[i + 1].type # EOF
            /\ returned[i + 1].cursor_position = SkipFrom(k)

\* C17: a character that is not white space, a comment opener, alphanumeric
\* or one of . / , ; = gives a symbol of type None without payload; exactly
\* that character is consumed, and the next call scans the text after it.
\* No other character gives a symbol of type None.
InvalidCharacterConsumed ==
    \A i \in 1..Len(returned) :
        /\ returned[i].type = NoneType
           => /\ returned[i].cursor_position \in 0..(Len(file) - 1)
              /\ file[returned[i].cursor_position + 1] \notin SymbolStarts
        /\ (/\ returned[i].type # EOF
            /\ file[returned[i].cursor_position + 1] \notin SymbolStarts)
           => /\ returned[i].type = NoneType
              /\ returned[i].id = None
              /\ NextStartsFrom(i, returned[i].cursor_position + 1)

\* an illegal character was returned and then the name that follows it
NameAfterInvalidCharacter ==
    /\ Len(returned) = 2
    /\ file = <<"?", "S">>
    /\ returned[1].type = NoneType /\ returned[1].cursor_position = 0
    /\ returned[2].type = NAME /\ returned[2].cursor_position = 1

\* the file f from offset k on without its single-line comments: the text
\* from a '#' outside a multi-line comment up to, and without, the end of
\* its line is left out; ml tells whether offset k is in a multi-line comment
RECURSIVE StripFrom(_, _, _)
StripFrom(f, k, ml) ==
    IF k >= Len(f) THEN <<>>
    ELSE IF ml THEN <<f[k + 1]>> \o StripFrom(f, k + 1, f[k + 1] # "*")
    ELSE IF f[k + 1] = "#"
         THEN IF \E j \in (k + 1)..Len(f) : f[j] = "\n"
              THEN StripFrom(f, LineEnd(f, k) - 1, FALSE)
              ELSE <<>>
    ELSE <<f[k + 1]>> \o StripFrom(f, k + 1, f[k + 1] = "*")

Strip(f) == StripFrom(f, 0, FALSE)

\* the symbols get_symbol returns on a file, up to the first EOF
RECURSIVE scan_loop(_, _)
scan_step(r, out) ==
    IF r.symbol.type = EOF
    THEN Append(out, r.symbol)
    ELSE scan_loop(r.sc, Append(out, r.symbol))

scan_loop(sc, out) == scan_step(Scanner_get_symbol(sc), out)

ScanAll(f) == scan_loop(Scanner(f), <<>>)

\* the kind and the payload of a symbol
KindAndPayload(sym) == <<sym.type, sym.id>>

\* the i-th symbol of a scan that ends with EOF, EOF being returned again
\* after the end
SymbolOf(syms, i) == syms[Min(i, Len(syms))]

\* C18: the kinds and payloads of the symbols get_symbol returns on a file
\* are those it returns on the file with every single-line comment deleted
\* from its '#' (outside a multi-line comment) up to, but not including,
\* the end of its line.
SingleLineCommentsTransparent ==
    \A i \in 1..Len(returned) :
        KindAndPayload(returned[i])
            = KindAndPayload(SymbolOf(ScanAll(Strip(file)), i))

\* a file with a comment line before a name was read to its end
CommentLineThenNameRead ==
    /\ file = <<"#", "S", "\n", "S">>
    /\ Len(returned) = 2
    /\ returned[1].type = NAME
    /\ returned[2].type = EOF

\* C19: a multi-line comment from '*' to the next '*' is skipped whole, and
\* so is any interleaving of white space, single-line comments and closed
\* multi-line comments: the first symbol starts at the first offset of the
\* file outside all of them, and every next symbol at the first such offset
\* after the end of the symbol before it (EOF if there is none).
CommentsAndSpacesSkipped ==
    /\ NextStartsFrom(0, 0)
    /\ \A i \in 1..Len(returned) :
          returned[i].type # EOF
          => NextStartsFrom(i, EndOffset(returned[i].cursor_position))

\* a name was returned after a multi-line comment and a comment line
NameAfterTwoComments ==
    /\ file = <<"*", "\n", "*", "#", "S", "\n", "S">>
    /\ Len(returned) = 1
    /\ returned[1].type = NAME
    /\ returned[1].cursor_position = 6

\* the file ends inside a multi-line comment: scanning it from offset k on,
\* ml telling whether offset k is in a multi-line comment, ends in one
RECURSIVE OpenAtEnd(_, _)
OpenAtEnd(k, ml) ==
    IF k >= Len(file) THEN ml
    ELSE IF ml THEN OpenAtEnd(k + 1, file[k + 1] # "*")
    ELSE IF file[k + 1] = "#" THEN OpenAtEnd(After("\n", k + 1), FALSE)
    ELSE OpenAtEnd(k + 1, file[k + 1] = "*")

UnclosedComment == OpenAtEnd(0, FALSE)

\* C20: on a file that ends inside a multi-line comment that was opened with
\* '*' and never closed, the calls of get_symbol print the warning exactly
\* once, in the call that returns the first EOF, and nothing faults; on any
\* other file no warning is printed.
UnclosedCommentWarnedOnce ==
    /\ pc # "fault"
    /\ warnings = IF UnclosedComment /\ EofReads >= 1 THEN 1 ELSE 0
    /\ UnclosedComment
       => \A i \in 1..Len(returned) :
             returned[i].type = EOF
             <=> SkipFrom(IF i = 1 THEN 0
                          ELSE EndOffset(returned[i - 1].cursor_position))
                    = Len(file)

\* EOF was read twice after a name and an unclosed comment, with one warning
WarnedOnceAfterName ==
    /\ file = <<"S", "*", "S">>
    /\ Len(returned) = 3
    /\ returned[1].type = NAME
    /\ returned[2].type = EOF
    /\ returned[3].type = EOF
    /\ warnings = 1

-----------------------------------------------------------------------------
(* Properties of the located diagnostics shown to the user *)

\* n blanks, for n >= 0
RECURSIVE Blanks(_)
Blanks(n) == IF n = 0 THEN "" ELSE " " \o Blanks(n - 1)

\* 'Line <n>: '
LinePrefix(n) == "Line " \o ToString(n) \o ": "

\* the source line that starts at offset start, without its newline
SourceLine(start) ==
    Text(start, RunLength(start, {file[k] : k \in 1..Len(file)} \ {"\n"}))

\* the index of the caret for an error at error_offset
CaretIndex(n, line_start, error_offset) ==
    Len(LinePrefix(n)) + (error_offset - line_start)

\* the two lines: the prefixed source line, and a line of the same width
\* made of blanks and one caret at index CaretIndex
Excerpt(n, line_start, error_offset) ==
    LinePrefix(n) \o SourceLine(line_start) \o "\n"
    \o Blanks(CaretIndex(n, line_start, error_offset))
    \o "^"
    \o Blanks(Len(LinePrefix(n)) + Len(SourceLine(line_start))
              - CaretIndex(n, line_start, error_offset) - 1)

\* C21: for every position the parser has recorded, show_error_location
\* returns 'Line <n>: ' followed by the source line without its newline,
\* and a second line of the same width made of blanks and one caret at index
\* len('Line <n>: ') + (error_offset - line_start).
ExcerptWellFormed ==
    pc = "printed"
    => \A i \in 1..Len(error_cursor) :
          /\ CaretIndex(errline_num[i], errline_pos[i], error_cursor[i])
                \in 0..(Len(LinePrefix(errline_num[i]))
                        + Len(SourceLine(errline_pos[i])) - 1)
          /\ error_to_gui[2 * i + 1]
                = Excerpt(errline_num[i], errline_pos[i], error_cursor[i])

\* a diagnostic at the second column of the second line was shown
SecondLineExcerptShown ==
    /\ pc = "printed"
    /\ file = <<"\n", " ", "S">>
    /\ Len(error_cursor) = 1
    /\ error_to_gui[3] = "Line 2:  S\n         ^"

\* C22: show_error_location leaves the read position of the file as it
\* was: called between two calls of get_symbol, it does not change the
\* symbols get_symbol returns, which are those of the file read alone.
ShowLeavesSymbols ==
    \A i \in 1..Len(returned) :
        KindAndPayload(returned[i])
            = KindAndPayload(SymbolOf(ScanAll(file), i))

-----------------------------------------------------------------------------
(* Properties of the diagnostics of the grammar code *)

\* the number of times a message was recorded
Recorded(message) ==
    Cardinality({i \in 1..Len(error_output) : error_output[i] = message})

\* the file starts with DEVICES, and the semicolon that ends that section,
\* the first SEMICOLON or KEYWORD after it, is directly followed by MONITORS
MonitorsFollowDevices ==
    /\ Len(input) >= 3
    /\ input[1] = Kw("DEVICES")
    /\ \E k \in 2..(Len(input) - 1) :
          /\ input[k].type = SEMICOLON
          /\ \A h \in 2..(k - 1) : input[h].type \notin {SEMICOLON, KEYWORD}
          /\ input[k + 1] = Kw("MONITORS")

\* C23: when the semicolon that ends the DEVICES section is directly
\* followed by the keyword MONITORS, exactly one "Expected a keyword
\* 'CONNECTIONS'" diagnostic is recorded and parse_network returns False.
MissingConnectionsReported ==
    (pc \in {"done", "fault"} /\ MonitorsFollowDevices)
    => /\ Recorded(SyntaxMessage(NO_KEYWORD_CONNECTIONS)) = 1
       /\ result = <<FALSE>>

\* the file without CONNECTIONS was parsed: one diagnostic, False returned
MissingConnectionsFileParsed ==
    /\ pc = "done"
    /\ input = MissingConnectionsFile
    /\ error_output = <<"SyntaxError: Expected a keyword 'CONNECTIONS'">>
    /\ result = <<FALSE>>

\* the parser has read EOF: the file ended before the semicolon that ends
\* the MONITORS section
EofMidSection == pc \in {"done", "fault"} /\ symbol.type = EOF

\* a diagnostic with one of the messages is recorded at the EOF symbol
RecordedAtEof(messages) ==
    \E i \in 1..Len(error_cursor) :
        /\ error_output[i] \in messages
        /\ error_cursor[i] = Len(input) + 1

LastDiagnosticReachesEof ==
    /\ error_cursor # <<>>
    /\ Len(error_output) = Len(error_cursor)
    /\ error_output[Len(error_output)]
          \in KeywordMessages \cup ItemSyntaxMessages
    /\ \A h \in (error_cursor[Len(error_cursor)] + 1)..Len(input) :
          input[h].type \notin {COMMA, SEMICOLON, KEYWORD}

-----------------------------------------------------------------------------
(* Properties of the display list print_msg builds at the end of           *)
(* parse_network.                                                          *)

\* the header of the display list for the three counts
HeaderText(total, syntax, semantic) ==
    "File '" \o FileName \o "' contains " \o ToString(total)
    \o " error(s): " \o ToString(syntax) \o " syntax error(s) and "
    \o ToString(semantic) \o " semantic error(s)\n"

\* the number of recorded diagnostics that are syntax diagnostics
SyntaxRecorded ==
    Cardinality({i \in 1..Len(error_output) :
                    error_output[i] \in KeywordMessages
                                        \cup ItemSyntaxMessages})

\* the number of recorded diagnostics of the other kind
SemanticRecorded == Len(error_output) - SyntaxRecorded

\* the first k recorded messages in recorded order, each followed by its
\* excerpt where a location was recorded
RECURSIVE DiagnosticsShown(_)
DiagnosticsShown(k) ==
    IF k = 0
    THEN <<>>
    ELSE DiagnosticsShown(k - 1)
         \o <<error_output[k]>>
         \o (IF k <= Len(error_cursor)
             THEN <<show_error_location(Sc, errline_num[k], errline_pos[k],
                                        error_cursor[k]).output>>
             ELSE <<>>)

\* C25: when parse_network has ended, the display list holds one
\* confirmation message if the result is True; otherwise a header whose
\* total, syntax and semantic counts are the numbers of recorded diagnostics
\* of that kind, none negative, followed by every recorded message in
\* recorded order, each with its excerpt where a location was recorded.
DisplayListConsistent ==
    pc \in {"done", "fault"}
    => IF result = <<TRUE>>
       THEN error_to_gui = <<"Parsed successfully! Valid definition file!">>
       ELSE /\ SyntaxRecorded >= 0
            /\ SemanticRecorded >= 0
            /\ error_to_gui
                  = <<HeaderText(Len(error_output), SyntaxRecorded,
                                 SemanticRecorded)>>
                    \o DiagnosticsShown(Len(error_output))

\* the same for the runs in which no builder refuses an item and
\* check_network finds every input connected: when parse_network has
\* returned and every recorded diagnostic is a syntax diagnostic, the
\* display list is consistent
DisplayListConsistentForSyntaxErrors ==
    (pc = "done" /\ SemanticRecorded = 0) => DisplayListConsistent

\* a run with two syntax diagnostics has ended and its display list holds
\* the header and both messages with their excerpts
TwoSyntaxErrorsShown ==
    /\ pc = "done"
    /\ SyntaxRecorded = 2
    /\ SemanticRecorded = 0
    /\ Len(error_to_gui) = 5

-----------------------------------------------------------------------------
(* Properties of the items a builder refuses.                              *)

\* the index of the first symbol of the item that ends before symbol k
ItemStart(k) ==
    IF \E j \in 1..(k - 1) : input[j].type \in SyncTypes
    THEN 1 + CHOOSE j \in 1..(k - 1) :
                /\ input[j].type \in SyncTypes
                /\ \A i \in (j + 1)..(k - 1) : input[i].type \notin SyncTypes
    ELSE 1

\* the symbols of the item that ends before symbol k
ItemBefore(k) == SubSeq(input, ItemStart(k), k - 1)

\* the latest call of a builder was of this one, it answered with an error,
\* and no syntax diagnostic has been recorded
RefusedBy(builder) ==
    /\ calls # <<>>
    /\ calls[Len(calls)][1] = builder
    /\ calls[Len(calls)][Len(calls[Len(calls)])] # NO_ERROR
    /\ SyntaxRecorded = 0

\* after the refusal the parser is in the loop of the section, on the COMMA
\* or SEMICOLON that ends a well-formed item, with no symbol read beyond it
AtItemEndAfterRefusal(builder, loop, IsItem(_)) ==
    (RefusedBy(builder) /\ pc \in {loop, "fault"})
    => /\ pc = loop
       /\ symbol.type \in {COMMA, SEMICOLON}
       /\ pos <= Len(input)
       /\ symbol.cursor_position = pos
       /\ IsItem(ItemBefore(pos))

\* C26: when a builder refuses a well-formed item, no symbol is skipped:
\* the current symbol is the COMMA or SEMICOLON that ends the item, and the
\* parser is in the loop of the section, which goes on with the next item
\* or ends the section at that symbol.
SemanticErrorSkipsNothing ==
    /\ AtItemEndAfterRefusal("make_device", "devices_loop", IsDeviceDef)
    /\ AtItemEndAfterRefusal("make_connection", "connections_loop",
                             IsConnection)
    /\ AtItemEndAfterRefusal("make_monitor", "monitors_loop", IsSignal)

\* the same wherever add_monitor returns: for the DEVICES and CONNECTIONS
\* sections, and for the MONITORS section unless display_error_monitor raises
SemanticErrorSkipsNothingIfReported ==
    pc # "fault" => SemanticErrorSkipsNothing

\* a device was refused and the parser stands on the comma after it
DeviceRefusedBeforeComma ==
    /\ RefusedBy("make_device")
    /\ pc = "devices_loop"
    /\ symbol.type = COMMA
    /\ error_count = 1

-----------------------------------------------------------------------------
(* Properties of signame, called on the symbols after the current one.     *)

\* the type of symbol k of the file, EOF after the last
TypeAt(k) == IF k > Len(input) THEN EOF ELSE input[k].type

\* the index of the first symbol after symbol k that is not invalid
RECURSIVE NextValid(_)
NextValid(k) ==
    IF k >= Len(input)
    THEN Len(input) + 1
    ELSE IF input[k + 1].type = NoneType THEN NextValid(k + 1) ELSE k + 1

\* the signal that starts after the current symbol: its device name, whether
\* a port follows, and the port name
SignalDevice == NextValid(pos)
HasPort == TypeAt(NextValid(SignalDevice)) = DOT
SignalPort == NextValid(NextValid(SignalDevice))
IsSignalNext ==
    /\ TypeAt(SignalDevice) = NAME
    /\ HasPort => TypeAt(SignalPort) = NAME

\* the symbol that follows the signal
Follower ==
    IF HasPort THEN NextValid(SignalPort) ELSE NextValid(SignalDevice)

\* the symbol signame(1) has met when it reports: the follower, or the one
\* after it where a symbol other than COMMA, SEMICOLON, KEYWORD and EOF
\* follows a signal without a port
Met ==
    IF ~HasPort /\ TypeAt(Follower) \notin {COMMA, SEMICOLON, KEYWORD, EOF}
    THEN NextValid(Follower)
    ELSE Follower

\* the diagnostics r adds, with their locations, those of invalid symbols
\* left out
DiagnosticsAdded(r) ==
    SelectSeq([i \in 1..(Len(r.st.error_output) - Len(error_output)) |->
                  <<r.st.error_output[Len(error_output) + i],
                    r.st.error_cursor[Len(error_cursor) + i]>>],
              LAMBDA d : d[1] # SyntaxMessage(NOT_SYMBOL))

\* r is the signal, read without error up to its follower
SignalReturned(r) ==
    /\ r.syntax_err = 0
    /\ DiagnosticsAdded(r) = <<>>
    /\ r.device_id = input[SignalDevice].id
    /\ r.port_id = IF HasPort THEN input[SignalPort].id ELSE None
    /\ r.st.symbol.cursor_position = Follower

\* r is an error with the one diagnostic error_type located at symbol k
SignalRefused(r, error_type, k) ==
    /\ r.syntax_err = 1
    /\ r.device_id = None
    /\ r.port_id = None
    /\ DiagnosticsAdded(r) = <<<<SyntaxMessage(error_type), k>>>>

\* C27: for a signal after the current symbol, signame(0) returns it
\* without error if EQUALS follows it and otherwise records 'Expected an
\* equals sign' at the follower; signame(1) returns it without error if
\* COMMA or SEMICOLON follows it and otherwise records one diagnostic at the
\* symbol it has met, 'Expected a semicolon' if that symbol is a KEYWORD or
\* EOF and 'Expected a comma' if not.
FollowerDependsOnSide ==
    IsSignalNext
    => /\ IF TypeAt(Follower) = EQUALS
          THEN SignalReturned(signame(P, 0))
          ELSE SignalRefused(signame(P, 0), NO_EQUALS, Follower)
       /\ IF TypeAt(Follower) \in {COMMA, SEMICOLON}
          THEN SignalReturned(signame(P, 1))
          ELSE SignalRefused(signame(P, 1),
                             IF TypeAt(Met) \in {KEYWORD, EOF}
                             THEN NO_SEMICOLON
                             ELSE NO_COMMA,
                             Met)

\* C27 read with the follower in the place of the symbol met: signame(1)
\* records 'Expected a semicolon' if the symbol that follows the signal is a
\* KEYWORD or EOF and 'Expected a comma' at any other follower.
MessageDependsOnFollower ==
    (IsSignalNext /\ TypeAt(Follower) \notin {COMMA, SEMICOLON})
    => SignalRefused(signame(P, 1),
                     IF TypeAt(Follower) \in {KEYWORD, EOF}
                     THEN NO_SEMICOLON
                     ELSE NO_COMMA,
                     Follower)

\* add_monitor has read a signal without a port that is followed by a name
\* and the end of the file, and recorded 'Expected a semicolon' at EOF
SemicolonExpectedAfterTwoNames ==
    /\ pc = "monitors_loop"
    /\ Len(input) >= 3
    /\ TypesOf(SubSeq(input, Len(input) - 2, Len(input)))
          = <<KEYWORD, NAME, NAME>>
    /\ error_output = <<SyntaxMessage(NO_SEMICOLON)>>
    /\ error_cursor = <<Len(input) + 1>>

-----------------------------------------------------------------------------
(* Properties of add_device, called on the symbols after the current one.  *)

\* the device definition that starts after the current symbol: its name,
\* '=', its type, the symbol after the type, and the number after a '/'
DeviceName == NextValid(pos)
DeviceEquals == NextValid(DeviceName)
DeviceType == NextValid(DeviceEquals)
AfterType == NextValid(DeviceType)
HasParameter == TypeAt(AfterType) = FORWARDS_SLASH
ParameterNumber == NextValid(AfterType)
IsDeviceNext ==
    /\ TypeAt(DeviceName) = NAME
    /\ TypeAt(DeviceEquals) = EQUALS
    /\ TypeAt(DeviceType) = NAME
    /\ HasParameter => TypeAt(ParameterNumber) = NUMBER

\* the symbol after the type and the optional parameter
DeviceEnd ==
    IF HasParameter THEN NextValid(ParameterNumber) ELSE AfterType

\* r records the one diagnostic error_type at the symbol after the
\* definition, stops at symbol k and calls no builder
DeviceRefused(r, error_type, k) ==
    /\ r.ret = FALSE
    /\ DiagnosticsAdded(r) = <<<<SyntaxMessage(error_type), DeviceEnd>>>>
    /\ r.st.symbol.cursor_position = k
    /\ r.st.calls = calls

\* C28: for a device definition after the current symbol, whatever
\* make_device would answer: if a KEYWORD or EOF follows the type and the
\* optional parameter, add_device records 'Expected a semicolon' once and
\* stays on that symbol; if a symbol other than COMMA, SEMICOLON, KEYWORD
\* and EOF follows, it records 'Expected a comma' once and skips to the next
\* COMMA, KEYWORD, SEMICOLON or EOF; in both cases make_device is not called.
DeviceSeparatorExpected ==
    IsDeviceNext
    => \A error_type \in DeviceErrors :
          CASE TypeAt(DeviceEnd) \in {KEYWORD, EOF} ->
                  /\ DeviceRefused(add_device(P, error_type),
                                   NO_SEMICOLON, DeviceEnd)
                  /\ add_device(P, error_type).st.pos = DeviceEnd
            [] TypeAt(DeviceEnd) \in {COMMA, SEMICOLON} -> TRUE
            [] OTHER ->
                  DeviceRefused(add_device(P, error_type),
                                NO_COMMA, ItemEnd(DeviceEnd))

\* add_device has read a device with a parameter that is followed by a
\* name, recorded 'Expected a comma' at the name and skipped beyond it
CommaExpectedAfterParameter ==
    /\ pc = "devices_loop"
    /\ Len(input) >= 7
    /\ TypesOf(SubSeq(input, 1, 7))
          = <<KEYWORD, NAME, EQUALS, NAME, FORWARDS_SLASH, NUMBER, NAME>>
    /\ error_output = <<SyntaxMessage(NO_COMMA)>>
    /\ error_cursor = <<7>>
    /\ symbol.cursor_position > 7
    /\ calls = <<>>

\* add_device has read a device that is followed by the CONNECTIONS
\* keyword, recorded 'Expected a semicolon' there and stayed on the keyword
SemicolonExpectedBeforeKeyword ==
    /\ pc = "devices_loop"
    /\ symbol.type = KEYWORD
    /\ symbol.id = CONNECTIONS_ID
    /\ error_output = <<SyntaxMessage(NO_SEMICOLON)>>
    /\ error_cursor = <<symbol.cursor_position>>
    /\ calls = <<>>

-----------------------------------------------------------------------------
(* Properties of the parameter of a device.                                *)

\* the first symbols of a device definition follow the current symbol: its
\* name, '=' and its type
IsDeviceStart ==
    /\ TypeAt(DeviceName) = NAME
    /\ TypeAt(DeviceEquals) = EQUALS
    /\ TypeAt(DeviceType) = NAME

\* the parser after add_device has read them and the symbol after the type
AtAfterType == read_symbol(read_symbol(read_symbol(read_symbol(P))))

\* the index of the first COMMA, KEYWORD, SEMICOLON or EOF from symbol k on
SyncFrom(k) == IF TypeAt(k) \in SyncTypes THEN k ELSE ItemEnd(k)

\* make_device is reached: a comma or a semicolon ends the definition, no
\* diagnostic was recorded before it, and no invalid symbol stands in it
BuilderReached ==
    /\ error_count = 0
    /\ TypeAt(DeviceEnd) \in {COMMA, SEMICOLON}
    /\ DeviceEnd = pos + (IF HasParameter THEN 6 ELSE 4)

\* the call of make_device for the definition, with this parameter
MakeDeviceCalled(r, param, error_type) ==
    r.st.calls = Append(calls, <<"make_device", input[DeviceName].id,
                                 input[DeviceType].id, param, error_type>>)

\* C29: in a device definition after the current symbol, a FORWARDS_SLASH
\* followed by a NUMBER makes get_parameter return the value of the number
\* and leave the parser on the symbol after it, and that value is the
\* parameter of the call of make_device; a FORWARDS_SLASH followed by
\* another symbol makes it record 'Expected a number' once at that symbol
\* and skip to the next COMMA, KEYWORD, SEMICOLON or EOF, and make_device is
\* not called; without a FORWARDS_SLASH the parameter of the call is None.
ParameterParsed ==
    IsDeviceStart
    => \A error_type \in DeviceErrors :
          CASE HasParameter /\ TypeAt(ParameterNumber) = NUMBER ->
                  /\ get_parameter(AtAfterType).ret
                        = <<DecimalValue(input[ParameterNumber].id)>>
                  /\ get_parameter(AtAfterType).st.symbol.cursor_position
                        = DeviceEnd
                  /\ BuilderReached
                        => MakeDeviceCalled(
                               add_device(P, error_type),
                               <<DecimalValue(input[ParameterNumber].id)>>,
                               error_type)
            [] HasParameter /\ TypeAt(ParameterNumber) # NUMBER ->
                  /\ get_parameter(AtAfterType).ret = None
                  /\ add_device(P, error_type).ret = FALSE
                  /\ DiagnosticsAdded(add_device(P, error_type))
                        = <<<<SyntaxMessage(NOT_NUMBER), ParameterNumber>>>>
                  /\ add_device(P, error_type).st.symbol.cursor_position
                        = SyncFrom(ParameterNumber)
                  /\ add_device(P, error_type).st.calls = calls
            [] OTHER ->
                  BuilderReached
                  => MakeDeviceCalled(add_device(P, error_type), None,
                                      error_type)

\* the device SW1 = SWITCH / 02 was handed to make_device with parameter 2
TwoDigitParameterPassed ==
    /\ pc = "devices_loop"
    /\ Len(input) >= 7
    /\ input[6] = Num(<<0, 2>>)
    /\ calls # <<>>
    /\ calls[1][1] = "make_device"
    /\ calls[1][4] = <<2>>
    /\ symbol.cursor_position = 7

\* a '/' followed by a name: 'Expected a number' was recorded at the name
\* and no device was made
NumberExpectedAtName ==
    /\ pc = "devices_loop"
    /\ Len(input) >= 6
    /\ TypesOf(SubSeq(input, 1, 6))
          = <<KEYWORD, NAME, EQUALS, NAME, FORWARDS_SLASH, NAME>>
    /\ error_output = <<SyntaxMessage(NOT_NUMBER)>>
    /\ error_cursor = <<6>>
    /\ calls = <<>>

-----------------------------------------------------------------------------
(* Properties of read_symbol, called after the current symbol.             *)

\* the number of invalid symbols between the current symbol and the next
\* symbol that is not invalid
InvalidRun == IF pos >= Len(input) THEN 0 ELSE NextValid(pos) - pos - 1

\* C30: read_symbol returns the first symbol after the current one that is
\* not invalid, never an invalid one, and records for each invalid symbol it
\* passes one 'Expected a legal symbol' diagnostic (error_count + 1) located
\* at that symbol, and nothing else; after the first read the symbol the
\* grammar code holds is never invalid.
InvalidSymbolsReported ==
    /\ pc # "parse_devices" => symbol.type # NoneType
    /\ read_symbol(P).symbol.type # NoneType
    /\ read_symbol(P).symbol.type = TypeAt(NextValid(pos))
    /\ read_symbol(P).symbol.cursor_position = NextValid(pos)
    /\ read_symbol(P).error_count = error_count + InvalidRun
    /\ read_symbol(P).semerr_count = semerr_count
    /\ read_symbol(P).error_output
          = error_output \o [i \in 1..InvalidRun |-> SyntaxMessage(NOT_SYMBOL)]
    /\ read_symbol(P).error_cursor
          = error_cursor \o [i \in 1..InvalidRun |-> pos + i]
    /\ \A i \in 1..InvalidRun : input[pos + i].type = NoneType

\* the file starts with two invalid symbols: parse_devices has recorded
\* 'Expected a legal symbol' at each and holds the keyword after them
InvalidFirstSymbolsReported ==
    /\ input = InvalidSymbolsFile
    /\ pc = "devices_first"
    /\ error_count = 2
    /\ error_output = <<SyntaxMessage(NOT_SYMBOL), SyntaxMessage(NOT_SYMBOL)>>
    /\ error_cursor = <<1, 2>>
    /\ symbol.cursor_position = 3

-----------------------------------------------------------------------------
(* Properties of the values parse_devices, parse_connections and           *)
(* parse_monitors return.                                                  *)

\* one of the three methods has just returned
SectionReturned ==
    pc \in {"parse_connections", "parse_monitors", "parse_network_end"}

\* the diagnostics recorded during the call that has just returned
SectionDiagnostics ==
    SubSeq(error_output, section_errors + 1, Len(error_output))

-----------------------------------------------------------------------------
(* Properties of the calls of the builders.                                *)

\* C32: make_device, make_connection, make_monitor and check_network are
\* called only while error_count is 0: a step with a call starts with no
\* diagnostic recorded and records none but the one for the answer of the
\* call, and check_network is called at the end of parse_network only; so
\* once a diagnostic has been recorded no builder is called for the rest of
\* the parse.
BuildersCalledWithoutErrors ==
    [][calls' # calls
       => /\ error_count = 0
          /\ error_output = <<>>
          /\ Len(calls') = Len(calls) + 1
          /\ error_count' <= 1
          /\ Len(error_output') <= 1
          /\ \A i \in 1..Len(error_output') :
                error_output'[i] \notin KeywordMessages \cup ItemSyntaxMessages
          /\ calls'[Len(calls')][1] = "check_network"
                <=> pc = "parse_network_end"]_vars

\* a parse whose first diagnostic is a syntax diagnostic never calls
\* check_network
NoCallAfterFirstDiagnostic ==
    (error_output # <<>>
     /\ error_output[1] \in KeywordMessages \cup ItemSyntaxMessages)
    => \A i \in 1..Len(calls) : calls[i][1] # "check_network"

\* the first device was made, the second definition was faulty, and no
\* builder was called for the rest of the file
NoBuilderAfterFaultyDevice ==
    /\ pc = "done"
    /\ Len(calls) = 1
    /\ calls[1][1] = "make_device"
    /\ calls[1][2] = lookup("SW1")
    /\ error_count >= 1
    /\ error_cursor[1] > 7
    /\ Len(input) >= Len(ValidFile)

-----------------------------------------------------------------------------
(* Properties of the order of the diagnostics.                             *)

\* C33: at most one recorded diagnostic is a semantic diagnostic, and every
\* diagnostic after the first of the list is a syntax diagnostic; a
\* semantic diagnostic, if there is one, is the first entry.
SemanticDiagnosticIsFirst ==
    /\ SemanticRecorded <= 1
    /\ \A i \in 2..Len(error_output) :
          error_output[i] \in KeywordMessages \cup ItemSyntaxMessages

\* a parse has ended with a semantic diagnostic followed by two syntax
\* diagnostics
SemanticThenSyntaxRecorded ==
    /\ pc = "done"
    /\ Len(error_output) = 3
    /\ SemanticRecorded = 1
    /\ error_output[1] \notin KeywordMessages \cup ItemSyntaxMessages

-----------------------------------------------------------------------------
(* Properties of the text after the MONITORS section.                      *)

\* the three section methods have returned and the current symbol is a
\* semicolon
EndedOnSemicolon ==
    /\ pc \in {"parse_network_end", "done", "fault"}
    /\ Len(flags) = 3
    /\ symbol.type = SEMICOLON

\* C34: when parse_monitors has returned on a semicolon, that semicolon is
\* the last symbol get_symbol was called for, and the rest of parse_network
\* reads no symbol: whatever follows the semicolon in the file is never
\* read, so it changes neither the diagnostics, the builder calls nor the
\* returned value.
TrailingTextUnread ==
    /\ [](EndedOnSemicolon
          => /\ pos = symbol.cursor_position
             /\ pos <= Len(input)
             /\ input[pos].type = SEMICOLON)
    /\ [][pc = "parse_network_end"
          => /\ pos' = pos
             /\ symbol' = symbol
             /\ input' = input]_vars

\* a parse has ended with a diagnostic and an invalid symbol of the file
\* unread, and unreported, after the semicolon of the MONITORS section
TrailingSymbolUnread ==
    /\ pc = "done"
    /\ EndedOnSemicolon
    /\ pos + 1 = Len(input)
    /\ input[pos + 1].type = NoneType
    /\ error_count > 0
    /\ \A i \in 1..Len(error_output) :
          error_output[i] # SyntaxMessage(NOT_SYMBOL)

-----------------------------------------------------------------------------
(* Progress of the scanner.                                                *)

\* the number of characters of the file the scanner has passed: those before
\* current_character, which is "" once the whole file is passed
Consumed == IF current_character = "" THEN Len(file) ELSE file_pos - 1

\* the symbols other than EOF returned so far
NonEofReturned ==
    Cardinality({i \in 1..Len(returned) : returned[i].type # EOF})

\* the last symbol returned is EOF
EofReturned ==
    /\ returned # <<>>
    /\ returned[Len(returned)].type = EOF

-----------------------------------------------------------------------------
(* Properties of the command layer.                                        *)

\* the commands a stack holds, from the bottom
Held(stack, made) == [i \in 1..Len(stack) |-> made[stack[i]]]

\* the device states and the signals the manager works on
CurrentDevices == device_lists[devices_list]

CurrentSignals == dictionaries[monitors_dictionary]

\* C36: a call of execute_command whose command returns NO_ERROR leaves the
\* redo stack empty and the command on top of the undo stack, above the
\* commands the undo stack held (none of them after a LoadCommand, which
\* clears both stacks itself); a call whose command returns an error code
\* leaves both stacks as they were, and without a file every command but a
\* LoadCommand is answered NO_FILE and not executed.
KeptIffNoError ==
    [][last'.op = "execute"
       => /\ last'.error_code = NO_ERROR
             => /\ redo_stack' = <<>>
                /\ undo_stack' # <<>>
                /\ Top(undo_stack') = last'.id
                /\ commands'[last'.id].kind = last'.kind
                /\ Held(SubSeq(undo_stack', 1, Len(undo_stack') - 1),
                        commands')
                     = IF last'.kind = "load"
                       THEN <<>>
                       ELSE Held(undo_stack, commands)
          /\ last'.error_code # NO_ERROR
             => /\ last'.id = 0
                /\ Held(undo_stack', commands') = Held(undo_stack, commands)
                /\ Held(redo_stack', commands') = Held(redo_stack, commands)
          /\ (path = None /\ last'.kind # "load")
             <=> last'.error_code = NO_FILE
          /\ last'.error_code = NO_FILE
             => ~last'.simulation_changed]_vars

\* a command has returned an error code while the redo stack held a command
FailedCommandNotKept ==
    /\ last.op = "execute"
    /\ last.error_code \in {INVALID_ARGUMENT, OSCILLATING_NETWORK,
                            INVALID_DEFINITION_FILE}
    /\ redo_stack # <<>>

\* C37: after undo_command has undone a SwitchCommand the switch has the
\* value it had before the command was executed, and after redo_command has
\* redone it the switch has the value it had after the command was
\* executed.
SwitchUndoRestores ==
    (last.kind = "switch" /\ last.id # 0 /\ last.error_code = NO_ERROR)
    => /\ last.op = "undo"
          => CurrentDevices.switch_state
               = first[last.id].before.devices.switch_state
       /\ last.op = "redo"
          => CurrentDevices.switch_state
               = first[last.id].after.devices.switch_state

\* C38: after undo_command has undone a RunCommand or a ContinueCommand the
\* recorded signals, the device states and the completed-cycle count are
\* those of before the command was executed, and after redo_command has
\* redone it they are those of after it was executed.
SimulationUndoRedoRestores ==
    (last.kind \in {"run", "continue"} /\ last.id # 0)
    => /\ last.op = "undo" => Observed(Manager) = first[last.id].before
       /\ last.op = "redo" => Observed(Manager) = first[last.id].after

\* C39: a RunCommand or a ContinueCommand that returns an error code leaves
\* the recorded signals, the device states and the completed-cycle count as
\* they were, and is on no stack.
FailedSimulationChangesNothing ==
    (/\ last.op = "execute"
     /\ last.kind \in {"run", "continue"}
     /\ last.error_code # NO_ERROR)
    => /\ ~last.simulation_changed
       /\ last.id = 0

=============================================================================
